---- MODULE Spec2Model ----
(***************************************************************************)
(* Model of the disease impact projection worker:                          *)
(*   - SEIRModel (backend/model_worker/domain/seir_model.py): the          *)
(*     meta-agent SEIR engine, one run_simulation call as a state machine; *)
(*   - RunService (backend/model_worker/services/run_service.py): the      *)
(*     background execution of a run, its repetitions and aggregation;     *)
(*   - the /runs handlers of backend/model_worker/main.py and the status,  *)
(*     result and artifact stores of StorageAdapter.                       *)
(*                                                                         *)
(* Numbers.  Python floats are modelled by exact rationals over named      *)
(* denominators: initial fractions in 1/FracDen, contact multipliers,      *)
(* transmissibility and impact weights in 1/10.  Where a float rounding    *)
(* can change an integer result (int(count * fraction), a comparison at a  *)
(* threshold) the model lets the rounding go either way.                   *)
(***************************************************************************)
EXTENDS Integers, Sequences, FiniteSets, TLC

VARIABLES
    \* ---- SEIRModel (one engine instance) ----
    population,        \* self.population: sequence of meta-agent records
    params,            \* self.params
    contact_layers,    \* self.contact_layers, multipliers in tenths
    facility_impact_weights, \* self.facility_impact_weights, in tenths
    introductions,     \* self.introductions
    interventions,     \* self.interventions
    external_force,    \* self.external_force: <<>> while the attribute does not
                       \* exist, else <<x>> for the value x / ForceDen
    seeding_mode,      \* which of set_introductions and set_probabilistic_seeding
                       \* was called last on the engine ("none": neither)
    random_state,      \* self.random_state: <<>> when seeded from the system's
                       \* entropy, else <<seed, number of draws made>>
    \* ---- one run_simulation call ----
    initial_conditions, \* argument: fractions S, E, I, R in 1/FracDen
    num_weeks,         \* argument
    pc,                \* position of run_simulation
    t,                 \* loop index of the daily loop
    intro_k,           \* loop index of _process_introductions
    compartments,      \* local: agent index -> [S, E, I, R, total]
    snapI,             \* per agent, I in the newest entry of results["compartments"]
    casesNum,          \* per agent, the sum of max(0, new_I) over the saved days,
                       \* times the mean infectious period
    facility_impacts,  \* results["facility_impacts"] at completion
    \* ---- one run: POST /runs and RunService.execute_run ----
    run_config,        \* <<>> before POST /runs, else <<the RunConfig>>
    acked,             \* POST /runs has answered {"run_id", "status": "queued"}
    run_pc,            \* position of the background task execute_run
    rep,               \* the loop index i of the repetitions
    results,           \* the list `results` of repetition results
    aggregated,        \* <<>>, else <<what _aggregate_results returned>>
    rep_start,         \* <<>>, else <<the engine's configuration and fresh
                       \* compartments in the newest call of run_simulation>>
    first_rep_start,   \* the same for the first call
    \* ---- StorageAdapter, for the run id of that run ----
    status_store,      \* the status document: its "status", or "absent"
    result_store,      \* whether a run result document is stored
    artifact_store,    \* the kinds of the stored artifacts
    \* ---- GET /runs/{run_id} ----
    observed,          \* the answers of the status queries since the
                       \* acknowledgement, without immediate repetitions
    \* ---- one calibration: POST /calibrate and execute_calibration ----
    calibration_request, \* <<>> before POST /calibrate, else <<the request body>>
    calib_pc,          \* position of the request and of the background task
    calib_timeseries,  \* <<>>, else <<the timeseries _load_recent_data loaded>>
    calib_recent,      \* <<>>, else <<the recent_data _load_recent_data returned>>
    optimizer_invoked, \* whether _run_calibration_optimization was entered
    objective_reps,    \* run_simulation calls of the newest objective evaluation
    objective_value,   \* <<>>, else <<what the newest evaluation returned>>
    calibrated_store,  \* whether a file of calibrated parameters was written
    calibration_error_store, \* whether a calibration error file was written
    \* ---- arguments and answers of calls, recorded for the properties ----
    build_arguments,   \* <<>>, else <<the arguments of the newest call of
                       \* _build_population>>
    force_argument,    \* <<>>, else <<the argument of the newest call of
                       \* set_probabilistic_seeding>> (<<>> for none, else <<x>>)
    results_answer     \* <<>>, else <<the newest answer of
                       \* GET /runs/{run_id}/results, with the stored status
                       \* at the time of the request>>

configVars == <<population, params, contact_layers, facility_impact_weights,
                introductions, interventions, external_force, seeding_mode>>
engineVars == <<configVars, random_state>>
simVars == <<initial_conditions, num_weeks, pc, t, intro_k, compartments,
             snapI, casesNum, facility_impacts>>
runVars == <<run_config, acked, run_pc, rep, results, aggregated, rep_start,
             first_rep_start>>
storeVars == <<status_store, result_store, artifact_store>>
calibVars == <<calibration_request, calib_pc, calib_timeseries, calib_recent,
               optimizer_invoked, objective_reps, objective_value,
               calibrated_store, calibration_error_store>>
serviceVars == <<runVars, storeVars, observed, calibVars>>
callVars == <<build_arguments, force_argument, results_answer>>
vars == <<engineVars, simVars, serviceVars, callVars>>

-----------------------------------------------------------------------------
(* Bounds of the model *)

\* population size of one meta-agent in the daily-step specification
MaxCount == 2
\* largest run length in weeks
MaxWeeks == 1

(* Program constants *)

\* total_timesteps = num_weeks * 7
DaysPerWeek == 7
\* denominator of the initial fractions (0.9 is 900)
FracDen == 10 * 100
\* denominator of the external force (0.0001 is 1)
ForceDen == 100 * 100
\* the default of set_probabilistic_seeding, 0.0001
DefaultExternalForce == 1
\* risk band thresholds on capacity_impact_pct
HighThreshold == 30
MediumThreshold == 15

Unset == <<>>
None == "none"

-----------------------------------------------------------------------------
(* Strings that take part in substring tests are sequences of characters. *)

TRACT == <<"t", "r", "a", "c", "t">>
FACILITY == <<"f", "a", "c", "i", "l", "i", "t", "y">>
RESIDENT == <<"r", "e", "s", "i", "d", "e", "n", "t">>
STAFF == <<"s", "t", "a", "f", "f">>
ADULT == <<"a", "g", "e", "_", "1", "8", "_", "4", "9">>
SENIOR == <<"a", "g", "e", "_", "6", "5", "_", "p", "l", "u", "s">>
US == <<"_">>

\* Python's `needle in haystack` on strings
Contains(haystack, needle) ==
    \E i \in 0..(Len(haystack) - Len(needle)) :
        SubSeq(haystack, i + 1, i + Len(needle)) = needle

TractAgent(fips, age, count) ==
    [type |-> "tract", tract_fips |-> fips, age_group |-> age, count |-> count,
     facility_id |-> <<>>, facility_type |-> None, group |-> <<>>]

FacilityAgent(fid, ftype, fips, age, grp, count) ==
    [type |-> "facility", tract_fips |-> fips, age_group |-> age, count |-> count,
     facility_id |-> fid, facility_type |-> ftype, group |-> grp]

\* SEIRModel._get_agent_id
GetAgentId(agent) ==
    IF agent.type = "tract"
    THEN TRACT \o US \o agent.tract_fips \o US \o agent.age_group
    ELSE FACILITY \o US \o agent.facility_id \o US \o agent.age_group
             \o US \o agent.group

Agents == 1..Len(population)

-----------------------------------------------------------------------------
(* SEIRModel._initialize_compartments *)

\* the powers of two that divide FracDen: fractions a float holds exactly
Dyadic(f) == f % (FracDen \div 8) = 0

\* int(count * fraction): the product is truncated; when the exact product
\* is a whole number and the fraction is not exactly representable, the
\* float product may fall just below it
IntOfProduct(count, f) ==
    LET q == (count * f) \div FracDen
    IN  IF (count * f) % FracDen = 0 /\ q > 0 /\ ~Dyadic(f)
        THEN {q - 1, q}
        ELSE {q}

MisadjustedS(count, s, e, i, r) == s

\* lines 166-169: S absorbs the difference between count and the sum
AdjustedS(count, s, e, i, r) ==
    IF s + e + i + r # count THEN s + (count - (s + e + i + r)) ELSE s

InitialCompartment(count, ic) ==
    { [S |-> AdjustedS(count, s, e, i, r), E |-> e, I |-> i, R |-> r,
       total |-> count] :
        <<s, e, i, r>> \in IntOfProduct(count, ic.S) \X IntOfProduct(count, ic.E)
                           \X IntOfProduct(count, ic.I) \X IntOfProduct(count, ic.R) }

RECURSIVE InitialCompartmentsFrom(_, _, _)
InitialCompartmentsFrom(k, pop, ic) ==
    IF k > Len(pop) THEN { <<>> }
    ELSE { <<c>> \o rest :
             c \in InitialCompartment(pop[k].count, ic),
             rest \in InitialCompartmentsFrom(k + 1, pop, ic) }

\* every compartment map _initialize_compartments can return
InitializeCompartments(pop, ic) == InitialCompartmentsFrom(1, pop, ic)

-----------------------------------------------------------------------------
(* SEIRModel._process_introductions, one iteration of its loop *)

\* lines 184-193: the agents an introduction targets, by substring tests on
\* the agent id
TargetAgents(pop, intro) ==
    IF intro.facility_id # <<>>
    THEN { a \in 1..Len(pop) :
             /\ Contains(GetAgentId(pop[a]), FACILITY)
             /\ Contains(GetAgentId(pop[a]), intro.facility_id)
             /\ Contains(GetAgentId(pop[a]), intro.group) }
    ELSE { a \in 1..Len(pop) :
             /\ Contains(GetAgentId(pop[a]), TRACT)
             /\ Contains(GetAgentId(pop[a]), intro.tract_fips) }

Max(a, b) == IF a >= b THEN a ELSE b
Min(a, b) == IF a <= b THEN a ELSE b

UnfloorIntroductionsPerAgent(n, k) == Max(1, n)

\* line 200
IntroductionsPerAgent(n, k) == Max(1, n \div k)

\* lines 202-206 for one agent
Introduce(comp, per_agent) ==
    LET to_move == Min(per_agent, comp.S)
    IN  [comp EXCEPT !.S = comp.S - to_move, !.I = comp.I + to_move]

\* an introduction without matching agents that falls on every agent
SpreadIntroduction(pop, comps, intro) ==
    LET targets == IF TargetAgents(pop, intro) = {} THEN DOMAIN comps
                   ELSE TargetAgents(pop, intro)
    IN  [a \in DOMAIN comps |->
            IF a \in targets
            THEN Introduce(comps[a],
                     IntroductionsPerAgent(intro.num_introductions,
                                           Cardinality(targets)))
            ELSE comps[a]]

\* lines 183-206 for one introduction
ProcessIntroduction(pop, comps, intro) ==
    LET targets == TargetAgents(pop, intro)
    IN  IF targets = {} THEN comps
        ELSE [a \in DOMAIN comps |->
                IF a \in targets
                THEN Introduce(comps[a],
                         IntroductionsPerAgent(intro.num_introductions,
                                               Cardinality(targets)))
                ELSE comps[a]]

-----------------------------------------------------------------------------
(* SEIRModel._compute_force_of_infection *)

\* _calculate_seasonal_factor, in tenths: the parameter sets of this model
\* carry no seasonal_forcing, for which the code returns 1.0
CalculateSeasonalFactor == 10

RECURSIVE Product(_, _)
Product(f, S) ==
    IF S = {} THEN 1
    ELSE LET x == CHOOSE y \in S : TRUE IN f[x] * Product(f, S \ {x})

RECURSIVE Sum(_, _)
Sum(f, S) ==
    IF S = {} THEN 0
    ELSE LET x == CHOOSE y \in S : TRUE IN f[x] + Sum(f, S \ {x})

\* a common denominator of the fractions I / total
PopDen(comps) ==
    Product([a \in DOMAIN comps |-> IF comps[a].total > 0 THEN comps[a].total ELSE 1],
            DOMAIN comps)

\* contact_layers.get(facility_type, 1.0) and contact_layers["community"]
LayerOf(agent) ==
    IF agent.type = "tract" THEN contact_layers["community"]
    ELSE IF agent.facility_type \in DOMAIN contact_layers
         THEN contact_layers[agent.facility_type]
         ELSE 10

\* lines 216-233: infectious_pressure, times 1000 * PopDen (absent entries
\* read as 0.0 through .get)
InfectiousPressure(comps) ==
    [a \in DOMAIN comps |->
        IF comps[a].I = 0 \/ comps[a].total <= 0 THEN 0
        ELSE comps[a].I * (PopDen(comps) \div comps[a].total)
               * params.transmissibility_base * CalculateSeasonalFactor
               * LayerOf(population[a])]

AlwaysExternalTerm ==
    IF external_force = Unset THEN DefaultExternalForce ELSE external_force[1]

\* line 242: hasattr(self, "external_force")
ExternalTerm == IF external_force = Unset THEN 0 ELSE external_force[1]

UntieredWeight(a, o) ==
    LET tgt == population[a]
        oth == population[o]
    IN  IF tgt.type = "tract"
        THEN IF oth.tract_fips = tgt.tract_fips THEN 7 ELSE 0
        ELSE (IF oth.type = "facility" /\ oth.facility_id = tgt.facility_id
              THEN 8 ELSE 0)
           + (IF oth.type = "tract" /\ oth.tract_fips = tgt.tract_fips
              THEN 2 ELSE 0)

\* weights that let the pressure of every agent reach every target
BorderlessWeight(a, o) == 7

\* the tier weight, in tenths, of the pressure of agent o on target a
TierWeight(a, o) ==
    LET tgt == population[a]
        oth == population[o]
    IN  IF tgt.type = "tract"
        THEN IF oth.type = "tract" /\ oth.tract_fips = tgt.tract_fips THEN 7
             ELSE IF oth.tract_fips = tgt.tract_fips THEN 3
             ELSE 0
        ELSE (IF oth.type = "facility" /\ oth.facility_id = tgt.facility_id
              THEN 8 ELSE 0)
           + (IF oth.type = "tract" /\ oth.tract_fips = tgt.tract_fips
              THEN 2 ELSE 0)

\* lines 236-273: foi per agent, times ForceDen * 10000 * PopDen
ComputeForceOfInfection(comps) ==
    LET pressure == InfectiousPressure(comps)
    IN  [a \in DOMAIN comps |->
            ExternalTerm * 10000 * PopDen(comps)
          + ForceDen * Sum([o \in DOMAIN comps |-> TierWeight(a, o) * pressure[o]],
                           DOMAIN comps)]

-----------------------------------------------------------------------------
(* SEIRModel._update_compartments *)

\* random_state.binomial(n, p) with 0 < p < 1 can return every value of 0..n
\* and with p = 0 returns 0; it raises ValueError for n < 0 or p < 0
BinomialRaises(n, pSign) == n < 0 \/ pSign < 0
Binomial(n, pSign) == IF pSign = 0 THEN {0} ELSE 0..n

\* the sign of 1 - exp(-rate * days_per_timestep) is the sign of the rate
\* (1.0 / mean for the incubation and recovery rates)
IncubationSign == IF params.incubation_period_days.mean > 0 THEN 1 ELSE -1
RecoverySign == IF params.infectious_period_days.mean > 0 THEN 1 ELSE -1
Sign(x) == IF x > 0 THEN 1 ELSE IF x = 0 THEN 0 ELSE -1

\* whether one of the three draws of an agent raises (lines 291-297)
DrawRaises(comp, foi_a) ==
    \/ BinomialRaises(comp.S, Sign(foi_a))
    \/ BinomialRaises(comp.E, IncubationSign)
    \/ BinomialRaises(comp.I, RecoverySign)

\* an update in which the recovered return to the susceptible
WaningTransition(comp, new_exposures, new_infectious, new_recoveries) ==
    [comp EXCEPT !.S = comp.S - new_exposures + new_recoveries,
                 !.E = comp.E + new_exposures - new_infectious,
                 !.I = comp.I + new_infectious - new_recoveries]

\* lines 300-303
Transition(comp, new_exposures, new_infectious, new_recoveries) ==
    [comp EXCEPT !.S = comp.S - new_exposures,
                 !.E = comp.E + new_exposures - new_infectious,
                 !.I = comp.I + new_infectious - new_recoveries,
                 !.R = comp.R + new_recoveries]

\* every outcome of lines 289-303 for one agent
AgentOutcomes(comp, foi_a) ==
    { Transition(comp, ne, ni, nr) :
        <<ne, ni, nr>> \in Binomial(comp.S, Sign(foi_a))
                           \X Binomial(comp.E, IncubationSign)
                           \X Binomial(comp.I, RecoverySign) }

RECURSIVE UpdateFrom(_, _, _)
UpdateFrom(k, comps, foi) ==
    IF k > Len(comps) THEN { <<>> }
    ELSE { <<c>> \o rest :
             c \in AgentOutcomes(comps[k], foi[k]),
             rest \in UpdateFrom(k + 1, comps, foi) }

\* every compartment map one call of _update_compartments can leave
UpdateCompartments(comps, foi) == UpdateFrom(1, comps, foi)

UpdateRaises(comps, foi) == \E a \in DOMAIN comps : DrawRaises(comps[a], foi[a])

\* RandomState(seed) is a generator whose k-th variate is a function of the
\* seed and of k alone; this function stands for the generator's
VariateRange == 12
Variate(seed, k) == (seed * 5 + k * 7 + (k \div 3) * seed) % VariateRange

\* binomial(n, p) of a seeded generator, computed from one variate: an
\* element of Binomial(n, pSign)
SeededBinomial(n, pSign, u) == IF pSign = 0 THEN 0 ELSE u % (n + 1)

\* lines 289-303 for one agent whose three draws are the variates pos,
\* pos + 1 and pos + 2 of the generator
SeededTransition(comp, foi_a, seed, pos) ==
    Transition(comp,
               SeededBinomial(comp.S, Sign(foi_a), Variate(seed, pos)),
               SeededBinomial(comp.E, IncubationSign, Variate(seed, pos + 1)),
               SeededBinomial(comp.I, RecoverySign, Variate(seed, pos + 2)))

\* the agents draw in the order of the compartment map
SeededUpdate(comps, foi, seed, pos) ==
    [a \in DOMAIN comps |->
        SeededTransition(comps[a], foi[a], seed, pos + 3 * (a - 1))]

\* a generator whose stream the seed does not determine: a day may start
\* one variate further on
SkippingDraws(comps, foi) ==
    IF random_state = Unset
    THEN UpdateCompartments(comps, foi)
    ELSE { SeededUpdate(comps, foi, random_state[1], random_state[2] + skip) :
             skip \in {0, 1} }

\* what _update_compartments leaves with the engine's generator: any
\* outcome when it was seeded from the system's entropy (line 49), the one
\* outcome of its stream when set_random_seed seeded it (line 72)
DrawnCompartments(comps, foi) ==
    IF random_state = Unset
    THEN UpdateCompartments(comps, foi)
    ELSE { SeededUpdate(comps, foi, random_state[1], random_state[2]) }

\* the generator after the three draws of every agent
AdvancedStream(comps) ==
    IF random_state = Unset THEN random_state
    ELSE <<random_state[1], random_state[2] + 3 * Len(comps)>>

-----------------------------------------------------------------------------
(* SEIRModel._calculate_facility_impacts *)

\* lines 398-401 for one agent and one day t > 0, times the mean infectious
\* period m:  new_I * m = (I[t] - I[t-1]) * m + (I[t-1] - I[t])
NewCasesNum(i_now, i_before) ==
    Max(0, (i_now - i_before) * params.infectious_period_days.mean
           + (i_before - i_now))

FacilityIds == { population[a].facility_id : a \in { x \in Agents : population[x].type = "facility" } }

AgentsOf(fid) == { a \in Agents : population[a].type = "facility" /\ population[a].facility_id = fid }

\* the facility type recorded for a facility: that of its first agent
FacilityTypeOf(fid) ==
    population[CHOOSE a \in AgentsOf(fid) : \A b \in AgentsOf(fid) : a <= b].facility_type

\* facility_impact_weights.get(facility_type, 1.0), in tenths
ImpactWeight(ftype) ==
    IF ftype \in DOMAIN facility_impact_weights THEN facility_impact_weights[ftype] ELSE 10

\* a capacity_impact_pct is the exact rational num / den moved by the sign
\* eps of the float rounding of attack_rate * impact_weight * 100
PctGreater(pct, threshold) ==
    \/ pct.num > threshold * pct.den
    \/ pct.num = threshold * pct.den /\ pct.eps > 0

InclusiveRiskBand(pct) ==
    IF PctGreater(pct, HighThreshold) \/ (pct.num = HighThreshold * pct.den /\ pct.eps = 0)
    THEN "high"
    ELSE IF PctGreater(pct, MediumThreshold) THEN "medium" ELSE "low"

\* lines 411-415
RiskBand(pct) ==
    IF PctGreater(pct, HighThreshold) THEN "high"
    ELSE IF PctGreater(pct, MediumThreshold) THEN "medium"
    ELSE "low"

\* lines 391-408 for one facility: capacity_impact as num / den
CapacityImpact(fid, cases, first_totals) ==
    LET total_cases_num == Sum(cases, AgentsOf(fid))
        total_population == Sum(first_totals, AgentsOf(fid))
        weight == ImpactWeight(FacilityTypeOf(fid))
    IN  IF total_population > 0
        THEN [num |-> total_cases_num * weight * 10,
              den |-> total_population * params.infectious_period_days.mean]
        ELSE [num |-> 0, den |-> 1]

Roundings(cap) == IF cap.num = 0 THEN {0} ELSE {-1, 0, 1}

\* every list _calculate_facility_impacts can return, as a function of the
\* facility id
CalculateFacilityImpacts(cases, first_totals) ==
    { [fid \in FacilityIds |->
          LET pct == [num |-> CapacityImpact(fid, cases, first_totals).num,
                      den |-> CapacityImpact(fid, cases, first_totals).den,
                      eps |-> e[fid]]
          IN  [facility_id |-> fid,
               facility_type |-> FacilityTypeOf(fid),
               capacity_impact_pct |-> pct,
               risk_band |-> RiskBand(pct)]] :
        e \in { f \in [FacilityIds -> {-1, 0, 1}] :
                  \A fid \in FacilityIds :
                     f[fid] \in Roundings(CapacityImpact(fid, cases, first_totals)) } }

-----------------------------------------------------------------------------
(* Inputs of the daily-step specification *)

T53 == <<"5", "3">>
F1 == <<"f", "1">>

\* one tract age group and the residents of one facility in that tract
SmallPopulation ==
    << TractAgent(T53, ADULT, MaxCount),
       FacilityAgent(F1, "nursing_home", T53, SENIOR, RESIDENT, MaxCount) >>

Params(beta, incubation, infectious) ==
    [transmissibility_base |-> beta,
     incubation_period_days |-> [mean |-> incubation],
     infectious_period_days |-> [mean |-> infectious],
     detection_multiplier |-> 3]

\* community 1.0, nursing_home 1.5
ContactLayers == [k \in {"community", "nursing_home"} |->
                     IF k = "community" THEN 10 ELSE 15]

\* the disease profiles of the daily-step specification, with mean periods
\* of 5 and 2 days: transmissibility 0 and no impact weight for nursing homes
\* (the default 1.0 applies), transmissibility 1.2 and a weight of 0.6
StepProfiles ==
    { [params |-> Params(0, 5, 2), facility_impact_weights |-> [k \in {"school"} |-> 12]],
      [params |-> Params(12, 5, 2),
       facility_impact_weights |-> [k \in {"nursing_home"} |-> 6]] }

Fractions(s, e, i, r) == [S |-> s, E |-> e, I |-> i, R |-> r]

\* an introduction as a dict, the form _process_introductions reads
FacilityIntroduction(fid, grp, n) ==
    [facility_id |-> fid, tract_fips |-> <<>>, group |-> grp, num_introductions |-> n]

TractIntroduction(fips, grp, n) ==
    [facility_id |-> <<>>, tract_fips |-> fips, group |-> grp, num_introductions |-> n]

\* an introduction as the pydantic object of a RunConfig: its fields are
\* attributes, and it has no method get
IntroductionModel(intro) == [model |-> "Introduction", fields |-> intro]

\* whether intro.get(...) and intro[...] are answered
IsMapping(intro) == "model" \notin DOMAIN intro

\* the default fractions of the run service, and fractions that start an
\* agent with exposed and infectious, and with more than its count
StepInitialConditions ==
    { Fractions(900, 10, 10, 80), Fractions(0, 500, 500, 0),
      Fractions(0, 500, 500, 500) }

\* no seeding, probabilistic seeding with the default force, one introduction
StepSeedings ==
    { [introductions |-> <<>>, external_force |-> Unset, seeding_mode |-> "none"],
      [introductions |-> <<>>, external_force |-> <<DefaultExternalForce>>,
       seeding_mode |-> "probabilistic"],
      [introductions |-> << FacilityIntroduction(F1, RESIDENT, 1) >>,
       external_force |-> Unset, seeding_mode |-> "introductions"] }

-----------------------------------------------------------------------------
(* SEIRModel.run_simulation as a state machine *)

TotalTimesteps == num_weeks * DaysPerWeek

\* no calibration has been requested
NoCalibration ==
    /\ calibration_request = <<>>
    /\ calib_pc = "none"
    /\ calib_timeseries = <<>>
    /\ calib_recent = <<>>
    /\ optimizer_invoked = FALSE
    /\ objective_reps = 0
    /\ objective_value = <<>>
    /\ calibrated_store = FALSE
    /\ calibration_error_store = FALSE

\* no call has been recorded
NoCalls ==
    /\ build_arguments = <<>>
    /\ force_argument = <<>>
    /\ results_answer = <<>>

\* no run and no calibration has been requested
NoRun ==
    /\ run_config = <<>>
    /\ acked = FALSE
    /\ run_pc = "none"
    /\ rep = 0
    /\ results = <<>>
    /\ aggregated = <<>>
    /\ rep_start = <<>>
    /\ first_rep_start = <<>>
    /\ status_store = "absent"
    /\ result_store = FALSE
    /\ artifact_store = {}
    /\ observed = <<>>
    /\ NoCalibration
    /\ NoCalls

Init ==
    /\ population = SmallPopulation
    /\ \E profile \in StepProfiles :
          /\ params = profile.params
          /\ facility_impact_weights = profile.facility_impact_weights
    /\ contact_layers = ContactLayers
    /\ \E sd \in StepSeedings :
          /\ introductions = sd.introductions
          /\ external_force = sd.external_force
          /\ seeding_mode = sd.seeding_mode
          /\ random_state = Unset
    /\ interventions = <<>>
    /\ initial_conditions \in StepInitialConditions
    /\ num_weeks \in 1..MaxWeeks
    /\ pc = "start"
    /\ t = 0
    /\ intro_k = 1
    /\ compartments = <<>>
    /\ snapI = <<>>
    /\ casesNum = <<>>
    /\ facility_impacts = <<>>
    /\ NoRun

\* lines 95-112 without the caller's state: compartments are initialized;
\* seeding follows if there are introductions
InitializeEngine ==
    /\ pc = "start"
    /\ compartments' \in InitializeCompartments(population, initial_conditions)
    /\ pc' = IF introductions # <<>> THEN "seeding" ELSE "stepping"
    /\ snapI' = [a \in Agents |-> 0]
    /\ casesNum' = [a \in Agents |-> 0]
    /\ UNCHANGED <<engineVars, initial_conditions, num_weeks, t, intro_k,
                   facility_impacts>>

\* run_simulation called on an engine of its own
Initialize ==
    /\ run_pc = "none"
    /\ InitializeEngine
    /\ UNCHANGED <<serviceVars, callVars>>

\* one iteration of the loop of _process_introductions.  intro.get(...) on
\* an introduction that is no mapping raises AttributeError, which ends the
\* run with the exception.
Seed ==
    /\ pc = "seeding"
    /\ intro_k <= Len(introductions)
    /\ IF IsMapping(introductions[intro_k])
       THEN /\ compartments' = ProcessIntroduction(population, compartments,
                                                   introductions[intro_k])
            /\ intro_k' = intro_k + 1
            /\ pc' = IF intro_k = Len(introductions) THEN "stepping" ELSE "seeding"
       ELSE /\ pc' = "failed"
            /\ UNCHANGED <<compartments, intro_k>>
    /\ UNCHANGED <<engineVars, initial_conditions, num_weeks, t, snapI, casesNum,
                   facility_impacts, serviceVars, callVars>>

\* a hook that vaccinates: with an intervention registered, every
\* susceptible individual is moved to R
VaccinatingInterventions(comps) ==
    IF interventions = <<>> THEN comps
    ELSE [a \in DOMAIN comps |->
             [comps[a] EXCEPT !.S = 0, !.R = comps[a].R + comps[a].S]]

\* lines 310-314: the hook called at the end of every day is a stub; the
\* compartments it is handed are left as they are
ApplyActiveInterventions(comps) == comps

\* lines 115-136: one day.  The state is saved, the force of infection is
\* computed, the compartments are updated and handed to the intervention
\* hook; a draw that raises ends the run with the exception.
DayEngine ==
    /\ pc = "stepping"
    /\ t < TotalTimesteps
    /\ snapI' = [a \in Agents |-> compartments[a].I]
    /\ casesNum' = [a \in Agents |->
                      IF t > 0
                      THEN casesNum[a] + NewCasesNum(compartments[a].I, snapI[a])
                      ELSE casesNum[a]]
    /\ LET foi == ComputeForceOfInfection(compartments)
       IN  IF UpdateRaises(compartments, foi)
           THEN /\ pc' = "failed"
                /\ UNCHANGED <<compartments, t, random_state>>
           ELSE /\ compartments' \in
                      { ApplyActiveInterventions(c) :
                          c \in DrawnCompartments(compartments, foi) }
                /\ random_state' = AdvancedStream(compartments)
                /\ t' = t + 1
                /\ pc' = pc
    /\ UNCHANGED <<configVars, initial_conditions, num_weeks, intro_k,
                   facility_impacts>>

\* a day of a run_simulation call on an engine of its own
Day ==
    /\ DayEngine
    /\ UNCHANGED <<serviceVars, callVars>>

\* lines 138-144: the facility impacts are computed from the saved states
CompleteEngine ==
    /\ pc = "stepping"
    /\ t = TotalTimesteps
    /\ facility_impacts' \in
          CalculateFacilityImpacts(casesNum, [a \in Agents |-> compartments[a].total])
    /\ pc' = "done"
    /\ UNCHANGED <<engineVars, initial_conditions, num_weeks, t, intro_k,
                   compartments, snapI, casesNum>>

\* the completion of a run_simulation call on an engine of its own
Complete ==
    /\ CompleteEngine
    /\ UNCHANGED <<serviceVars, callVars>>

Next == Initialize \/ Seed \/ Day \/ Complete

Spec == Init /\ [][Next]_vars

-----------------------------------------------------------------------------
(* RunService._compute_initial_conditions *)

\* a week of the timeseries; vaccinations is the sequence of the coverage
\* values of the week, in 1/FracDen (<<>> when the week has none)
Week(week_end_date, cases, vaccinations) ==
    [week_end_date |-> week_end_date, cases |-> cases, vaccinations |-> vaccinations]

RECURSIVE InsertByDate(_, _)
InsertByDate(w, sorted) ==
    IF sorted = <<>> THEN <<w>>
    ELSE IF w.week_end_date < Head(sorted).week_end_date THEN <<w>> \o sorted
    ELSE <<Head(sorted)>> \o InsertByDate(w, Tail(sorted))

\* recent_data.sort(key=week_end_date): a stable ascending sort
RECURSIVE SortByDate(_)
SortByDate(weeks) ==
    IF weeks = <<>> THEN <<>>
    ELSE InsertByDate(weeks[Len(weeks)], SortByDate(SubSeq(weeks, 1, Len(weeks) - 1)))

\* lines 258-262
RecentWeeks(timeseries, start_date) ==
    LET recent_data == SortByDate(SelectSeq(timeseries,
                                  LAMBDA w : w.week_end_date <= start_date))
    IN  IF Len(recent_data) >= 4
        THEN SubSeq(recent_data, Len(recent_data) - 3, Len(recent_data))
        ELSE recent_data

SumSeq(seq) == Sum(seq, DOMAIN seq)

\* line 287: max(0.1, ...)
SusceptibleFraction(rest) == Max(FracDen \div 10, rest)

\* lines 264-295.  detection_multiplier and the vaccine effectiveness are in
\* tenths (0 stands for a profile without vaccine_effectiveness); the
\* divisions are exact for the inputs of this model.
ComputeInitialConditions(timeseries, detection_multiplier, effectiveness, start_date) ==
    LET recent_weeks == RecentWeeks(timeseries, start_date)
    IN  IF recent_weeks = <<>>
        THEN Fractions(900, 10, 10, 80)
        ELSE
          LET n == Len(recent_weeks)
              sum_cases == SumSeq([k \in 1..n |-> recent_weeks[k].cases])
              \* estimated_infectious / 100000, in 1/FracDen
              estimated == (sum_cases * 10 * FracDen)
                               \div (n * detection_multiplier * 100000)
              coverage == recent_weeks[n].vaccinations
              avg_vaccination_rate ==
                  IF coverage # <<>> THEN SumSeq(coverage) \div Len(coverage)
                  ELSE FracDen \div 5
              infectious_fraction == Min(FracDen \div 20, estimated)
              recovered_fraction == (3 * FracDen) \div 10
              vaccinated_effective ==
                  (avg_vaccination_rate * (IF effectiveness = 0 THEN 5 ELSE effectiveness))
                      \div 10
              susceptible_fraction ==
                  SusceptibleFraction(FracDen - infectious_fraction
                                        - recovered_fraction - vaccinated_effective)
              exposed_fraction == infectious_fraction \div 2
          IN  Fractions(susceptible_fraction, exposed_fraction, infectious_fraction,
                        recovered_fraction + vaccinated_effective)

-----------------------------------------------------------------------------
(* Inputs of the seeding specification *)

\* largest requested count of an introduction
MaxIntroductions == 5

T54 == <<"5", "4">>
F12 == <<"f", "1", "2">>
F9 == <<"f", "9">>

\* two age groups of one tract, one of another, the residents and the staff
\* of facility f1 and the residents of facility f12
SeedPopulation ==
    << TractAgent(T53, ADULT, 100),
       TractAgent(T53, SENIOR, 3),
       TractAgent(T54, ADULT, 0),
       FacilityAgent(F1, "nursing_home", T53, SENIOR, RESIDENT, 8),
       FacilityAgent(F1, "nursing_home", T53, STAFF, STAFF, 2),
       FacilityAgent(F12, "school", T54, ADULT, RESIDENT, 100) >>

\* weeks ending on days 7, 14, ..., with the given weekly cases and the
\* given coverage in the last week
Timeseries(cases, coverage) ==
    << Week(14, cases, <<>>), Week(7, cases, <<>>), Week(28, cases, coverage),
       Week(21, cases, <<>>), Week(35, 0, <<>>) >>

SeedTimeseries ==
    { <<>>, Timeseries(0, <<>>), Timeseries(600, <<900, 900>>),
      Timeseries(1500, <<>>) }

\* what the run service can hand to the engine from these timeseries with
\* detection_multiplier 0.3, start date 30 and a profile with no vaccine
\* effectiveness or one of 0.8; and an all-susceptible start
SeedInitialConditions ==
    { ComputeInitialConditions(ts, 3, eff, 30) : ts \in SeedTimeseries, eff \in {0, 8} }
        \cup { Fractions(FracDen, 0, 0, 0) }

SeedTargets ==
    { FacilityIntroduction(F12, RESIDENT, n) : n \in {1, MaxIntroductions} }
        \cup { FacilityIntroduction(F1, RESIDENT, MaxIntroductions),
               FacilityIntroduction(F1, STAFF, MaxIntroductions),
               FacilityIntroduction(F9, RESIDENT, MaxIntroductions),
               TractIntroduction(T53, RESIDENT, MaxIntroductions),
               TractIntroduction(T54, RESIDENT, 1) }

SeedIntroductionLists ==
    { <<i>> : i \in SeedTargets } \cup { <<i, j>> : i \in SeedTargets, j \in SeedTargets }

InitSeed ==
    /\ population = SeedPopulation
    /\ params = Params(12, 5, 2)
    /\ contact_layers = ContactLayers
    /\ facility_impact_weights = [k \in {"nursing_home"} |-> 6]
    /\ introductions \in SeedIntroductionLists
    /\ external_force = Unset
    /\ seeding_mode = "introductions"
    /\ random_state = Unset
    /\ interventions = <<>>
    /\ initial_conditions \in SeedInitialConditions
    /\ num_weeks = 1
    /\ pc = "start"
    /\ t = 0
    /\ intro_k = 1
    /\ compartments = <<>>
    /\ snapI = <<>>
    /\ casesNum = <<>>
    /\ facility_impacts = <<>>
    /\ NoRun

NextSeed == Initialize \/ Seed

\* run_simulation up to the first day: initialization and seeding
SpecSeed == InitSeed /\ [][NextSeed]_vars

-----------------------------------------------------------------------------
(* Properties of the engine *)

Initialized == pc \in {"seeding", "stepping", "done", "failed"}

\* C1: for every agent, S + E + I + R equals the agent's count after
\* _initialize_compartments, after every introduction and after every daily
\* step, for any initial fractions and any outcome of the binomial draws.
C1_Conservation ==
    Initialized =>
        \A a \in Agents :
            compartments[a].S + compartments[a].E + compartments[a].I
                + compartments[a].R = population[a].count

\* the default fractions leave one of two individuals unassigned; S absorbs
\* it, and the run has carried individuals through to R by its last day
C1_Witness ==
    /\ pc = "stepping"
    /\ t = TotalTimesteps
    /\ initial_conditions = Fractions(900, 10, 10, 80)
    /\ \E a \in Agents : compartments[a].R > 0 /\ compartments[a].E > 0

\* C2 as claimed: S, E, I and R are non-negative at initialization, after
\* seeding and after every daily step, for every set of initial fractions,
\* those of _compute_initial_conditions included.
C2_NonNegative ==
    Initialized =>
        \A a \in Agents :
            /\ compartments[a].S >= 0
            /\ compartments[a].E >= 0
            /\ compartments[a].I >= 0
            /\ compartments[a].R >= 0

NoSpontaneousInfection ==
    /\ params.transmissibility_base = 0
    /\ external_force = Unset
    /\ introductions = <<>>

\* C3 as claimed: with transmissibility_base 0, no external force and no
\* introductions, no agent's I increases from one day to the next.
C3_InfectiousNeverIncreases ==
    [][(NoSpontaneousInfection /\ pc = "stepping" /\ pc' = "stepping") =>
          \A a \in Agents : compartments'[a].I <= compartments[a].I]_vars

\* C3 as amended: with transmissibility_base 0, no external force and no
\* introductions, nobody is newly exposed: from one day to the next no
\* agent's S changes and no agent's E + I increases, and I increases only
\* in an agent that still has exposed individuals.
C3_NoNewExposure ==
    [][(NoSpontaneousInfection /\ pc = "stepping" /\ pc' = "stepping") =>
          \A a \in Agents :
              /\ compartments'[a].S = compartments[a].S
              /\ compartments'[a].E + compartments'[a].I
                     <= compartments[a].E + compartments[a].I
              /\ compartments[a].E = 0 => compartments'[a].I <= compartments[a].I]_vars

\* an agent that started with one exposed and one infectious individual has
\* two infectious ones on a later day
C3_Witness ==
    /\ NoSpontaneousInfection
    /\ pc = "stepping"
    /\ t >= 1
    /\ initial_conditions = Fractions(0, 500, 500, 0)
    /\ \E a \in Agents : compartments[a].I = 2 /\ population[a].count = 2

\* C4: an introduction with requested count n and k >= 1 matching agents
\* moves exactly min(max(1, n div k), S) individuals from S to I in every
\* matching agent and leaves its E and R unchanged; one matching agent with
\* S = 100 and n = 5 ends with S = 95 and I increased by 5.
C4_SeedingQuota ==
    [][pc = "seeding" =>
          LET intro == introductions[intro_k]
              targets == TargetAgents(population, intro)
              n == intro.num_introductions
              k == Cardinality(targets)
          IN  \A a \in targets :
                LET before == compartments[a]
                    after == compartments'[a]
                    quota == IF n \div k >= 1 THEN n \div k ELSE 1
                    count == IF quota <= before.S THEN quota ELSE before.S
                IN  /\ after.S = before.S - count
                    /\ after.I = before.I + count
                    /\ after.E = before.E
                    /\ after.R = before.R
                    /\ (k = 1 /\ before.S = 100 /\ n = 5) =>
                           (after.S = 95 /\ after.I = before.I + 5)]_vars

\* the lone agent matching facility f12 started with S = 100 and has given
\* the requested count to I
C4_Witness ==
    /\ pc = "stepping"
    /\ initial_conditions = Fractions(FracDen, 0, 0, 0)
    /\ introductions = << FacilityIntroduction(F12, RESIDENT, MaxIntroductions) >>
    /\ TargetAgents(population, introductions[1]) = {6}
    /\ compartments[6].S = 100 - MaxIntroductions
    /\ compartments[6].I = MaxIntroductions

\* C10: the risk band of a facility in a repetition's result is high exactly
\* when capacity_impact_pct > 30, medium exactly when 15 <
\* capacity_impact_pct <= 30, and low otherwise; the boundary values 15 and
\* 30 give low and medium.
C10_RiskBand ==
    pc = "done" =>
        \A fid \in DOMAIN facility_impacts :
            LET pct == facility_impacts[fid].capacity_impact_pct
                band == facility_impacts[fid].risk_band
                above30 == pct.num > 30 * pct.den \/ (pct.num = 30 * pct.den /\ pct.eps > 0)
                above15 == pct.num > 15 * pct.den \/ (pct.num = 15 * pct.den /\ pct.eps > 0)
            IN  /\ band = "high" <=> above30
                /\ band = "medium" <=> (above15 /\ ~above30)
                /\ band = "low" <=> ~above15
                /\ (pct.num = 15 * pct.den /\ pct.eps = 0) => band = "low"
                /\ (pct.num = 30 * pct.den /\ pct.eps = 0) => band = "medium"

\* a facility whose capacity impact is exactly 30 is in the medium band
C10_Witness ==
    /\ pc = "done"
    /\ \E fid \in DOMAIN facility_impacts :
          LET pct == facility_impacts[fid].capacity_impact_pct
          IN  /\ pct.num = 30 * pct.den
              /\ pct.eps = 0
              /\ facility_impacts[fid].risk_band = "medium"

-----------------------------------------------------------------------------
(* RunService._build_population *)

\* next((d for d in demographics if d["tract_fips"] == tract_fips), None)
FirstDemographics(demographics, tract_fips) ==
    LET matching == SelectSeq(demographics, LAMBDA d : d.tract_fips = tract_fips)
    IN  IF matching = <<>> THEN <<>> ELSE <<Head(matching)>>

RECURSIVE Concat(_)
Concat(seqs) == IF seqs = <<>> THEN <<>> ELSE Head(seqs) \o Concat(Tail(seqs))

\* a builder that leaves out the age groups of a tract without inhabitants
PopulatedTractAgentsOf(tract_fips, demographics) ==
    LET tract_demo == FirstDemographics(demographics, tract_fips)
    IN  IF tract_demo = <<>> THEN <<>>
        ELSE LET items == SelectSeq(tract_demo[1].age_distribution,
                                    LAMBDA it : it[2] > 0)
             IN  [k \in 1..Len(items) |->
                    TractAgent(tract_fips, items[k][1], items[k][2])]

\* lines 210-221: one agent per age group of the tract, whatever its count.
\* A dict is a sequence of <<key, value>> pairs in insertion order.
TractAgentsOf(tract_fips, demographics) ==
    LET tract_demo == FirstDemographics(demographics, tract_fips)
    IN  IF tract_demo = <<>> \/ tract_demo[1].age_distribution = <<>>
        THEN <<>>
        ELSE LET items == tract_demo[1].age_distribution
             IN  [k \in 1..Len(items) |-> TractAgent(tract_fips, items[k][1], items[k][2])]

\* lines 226-248: one agent per age group with residents, and one for the staff
FacilityAgentsOf(facility) ==
    LET items == SelectSeq(facility.resident_age_profile, LAMBDA it : it[2] > 0)
        residents == [k \in 1..Len(items) |->
                         FacilityAgent(facility.facility_id, facility.type,
                                       facility.tract_fips, items[k][1], RESIDENT,
                                       items[k][2])]
        staff == IF facility.staff_count > 0
                 THEN << FacilityAgent(facility.facility_id, facility.type,
                                       facility.tract_fips, STAFF, STAFF,
                                       facility.staff_count) >>
                 ELSE <<>>
    IN  residents \o staff

BuildPopulation(tracts, facilities, demographics) ==
    Concat([k \in 1..Len(tracts) |-> TractAgentsOf(tracts[k], demographics)])
        \o Concat([k \in 1..Len(facilities) |-> FacilityAgentsOf(facilities[k])])

\* SEIRModel._validate_inputs: a required parameter is missing or the
\* population is empty
RequiredParams == {"transmissibility_base", "incubation_period_days",
                   "infectious_period_days", "detection_multiplier"}

\* a validation that looks at the parameters only
ValidateParamsOnly(pop, prm) == ~(RequiredParams \subseteq DOMAIN prm)

\* lines 54-68
ValidateInputsRaises(pop, prm) ==
    \/ ~(RequiredParams \subseteq DOMAIN prm)
    \/ pop = <<>>

\* set_probabilistic_seeding: external_force or 0.0001, where 0 and None
\* (<<>>) are false
SetProbabilisticSeeding(force) ==
    IF force = <<>> \/ force = <<0>> THEN <<DefaultExternalForce>> ELSE force

-----------------------------------------------------------------------------
(* RunService._aggregate_results: what it returns, whatever the results *)

Metrics == {"cases", "hospitalizations", "ed_visits"}
Percentiles == {"p5", "p25", "p50", "p75", "p95"}

\* lines 309-313: the value of the one point of each percentile series
PlaceholderValue(q) ==
    CASE q = "p5" -> 10 [] q = "p25" -> 20 [] q = "p50" -> 30
      [] q = "p75" -> 40 [] q = "p95" -> 50

\* lines 317-327; capacity_impact_pct 15.0 as a fraction with its rounding
PlaceholderFacilityImpacts ==
    << [facility_id |-> <<"f", "a", "c", "_", "0", "0", "1">>,
        type |-> "nursing_home",
        risk_band |-> "medium",
        capacity_impact_pct |-> [num |-> 15, den |-> 1, eps |-> 0]] >>

AggregateResults(reps) ==
    [timeseries |-> [m \in Metrics |-> [q \in Percentiles |->
                        << [date |-> "2025-09-20", value |-> PlaceholderValue(q)] >>]],
     facility_impacts |-> PlaceholderFacilityImpacts]

-----------------------------------------------------------------------------
(* RunService.execute_run, line 135, and _aggregate_results on its own *)

\* line 135
Aggregate ==
    /\ run_pc = "aggregate"
    /\ aggregated' = << AggregateResults(results) >>
    /\ run_pc' = "artifacts"
    /\ UNCHANGED <<engineVars, simVars, run_config, acked, rep, results, rep_start,
                   first_rep_start, storeVars, observed, calibVars, callVars>>

\* number of repetition results handed to _aggregate_results
AggReps == 5
\* largest number of simulated days in those results
MaxDays == 2

\* the values of one day across the repetitions
DayValues ==
    { [r \in 1..AggReps |-> 10 * r],
      [r \in 1..AggReps |-> 10 * (AggReps + 1 - r)],
      [r \in 1..AggReps |-> 7],
      [r \in 1..AggReps |-> IF r = AggReps THEN 100 ELSE 0] }

\* an entry of results["facility_impacts"] of one repetition
Impact(fid, ftype, num, den) ==
    LET pct == [num |-> num, den |-> den, eps |-> 0]
    IN  [facility_id |-> fid, facility_type |-> ftype,
         capacity_impact_pct |-> pct, risk_band |-> RiskBand(pct)]

\* the facility impacts of the repetitions: no facility, one facility, two
FacilityImpactInputs ==
    { [fid \in {} |-> <<>>],
      [fid \in {F1} |-> Impact(F1, "nursing_home", 0, 1)],
      [fid \in {F1} |-> Impact(F1, "nursing_home", 35, 1)],
      [fid \in {F1, F12} |->
          IF fid = F1 THEN Impact(F1, "nursing_home", 20, 1)
          ELSE Impact(F12, "school", 10, 1)] }

\* the result of repetition r of run_simulation over the given days:
\* ed_visits is 2.5 times hospitalizations
RepetitionResult(r, days, impacts) ==
    [dates |-> [d \in 1..Len(days) |-> d],
     metrics |-> [m \in Metrics |->
                    [d \in 1..Len(days) |->
                        CASE m = "cases" -> days[d][r]
                          [] m = "hospitalizations" -> 2 * days[d][r]
                          [] m = "ed_visits" -> 5 * days[d][r]]],
     facility_impacts |-> impacts]

AggInputs ==
    { [r \in 1..AggReps |-> RepetitionResult(r, days, impacts)] :
        days \in UNION { [1..n -> DayValues] : n \in 1..MaxDays },
        impacts \in FacilityImpactInputs }

InitAgg ==
    /\ population = <<>>
    /\ params = Params(12, 5, 2)
    /\ contact_layers = ContactLayers
    /\ facility_impact_weights = [k \in {"nursing_home"} |-> 6]
    /\ introductions = <<>>
    /\ external_force = Unset
    /\ seeding_mode = "none"
    /\ random_state = Unset
    /\ interventions = <<>>
    /\ initial_conditions = Fractions(900, 10, 10, 80)
    /\ num_weeks = 1
    /\ pc = "idle"
    /\ t = 0
    /\ intro_k = 1
    /\ compartments = <<>>
    /\ snapI = <<>>
    /\ casesNum = <<>>
    /\ facility_impacts = <<>>
    /\ run_config = <<>>
    /\ acked = FALSE
    /\ run_pc = "aggregate"
    /\ rep = AggReps
    /\ results \in AggInputs
    /\ aggregated = <<>>
    /\ rep_start = <<>>
    /\ first_rep_start = <<>>
    /\ status_store = "absent"
    /\ result_store = FALSE
    /\ artifact_store = {}
    /\ observed = <<>>
    /\ NoCalibration
    /\ NoCalls

NextAgg == Aggregate

\* _aggregate_results applied to the results of AggReps repetitions
SpecAgg == InitAgg /\ [][NextAgg]_vars

-----------------------------------------------------------------------------
(* One run: POST /runs, the background task RunService.execute_run and
   GET /runs/{run_id} *)

\* the smallest stochastic_reps the validator of RunConfig accepts
MinStochasticReps == 10

Intervention(type, target) == [type |-> type, target |-> target]

DictLikeRunConfig == TRUE

\* a RunConfig is a pydantic object: run_config.get(...) raises AttributeError
RunConfigHasGet == FALSE

\* the request bodies of this model: both seeding modes, with and without an
\* intervention.  simulate_introduction requires introductions.
RunConfigs ==
    { [seeding_mode |-> "probabilistic", introductions |-> <<>>,
       interventions |-> ivs, stochastic_reps |-> MinStochasticReps,
       run_length_weeks |-> 1, start_date |-> 30] :
         ivs \in { <<>>, << Intervention("distancing", F1) >> } }
    \cup
    { [seeding_mode |-> "simulate_introduction",
       introductions |-> << IntroductionModel(FacilityIntroduction(F1, RESIDENT, 1)) >>,
       interventions |-> << Intervention("distancing", F1) >>,
       stochastic_reps |-> MinStochasticReps,
       run_length_weeks |-> 1, start_date |-> 30] }

\* a canonical snapshot with one tract age group and one facility, each of
\* the given size
Snapshot(count, timeseries) ==
    [tracts |-> << T53 >>,
     demographics |-> << [tract_fips |-> T53,
                          age_distribution |-> << <<ADULT, count>> >>] >>,
     facilities |-> << [facility_id |-> F1, type |-> "nursing_home",
                        tract_fips |-> T53,
                        resident_age_profile |-> << <<SENIOR, count>> >>,
                        staff_count |-> 0] >>,
     timeseries |-> timeseries]

EmptySnapshot ==
    [tracts |-> <<>>, demographics |-> <<>>, facilities |-> <<>>, timeseries |-> <<>>]

\* what the data adapter can hand over: a jurisdiction with high vaccination
\* coverage and agents of size 1 or 100, and one with no tract and no facility
Snapshots ==
    { Snapshot(1, Timeseries(600, <<900, 900>>)),
      Snapshot(100, Timeseries(600, <<900, 900>>)),
      EmptySnapshot }

\* a disease profile; effectiveness is vaccine_effectiveness.transmission in
\* tenths
DiseaseProfile(prm, effectiveness) ==
    [parameters |-> prm, effectiveness |-> effectiveness,
     contact_layers |-> ContactLayers,
     facility_impact_weights |-> [k \in {"nursing_home"} |-> 6]]

Profiles ==
    { DiseaseProfile(Params(12, 5, 2), 8),
      DiseaseProfile([transmissibility_base |-> 12], 8) }

InitRun ==
    /\ population = <<>>
    /\ params = <<>>
    /\ contact_layers = <<>>
    /\ facility_impact_weights = <<>>
    /\ introductions = <<>>
    /\ external_force = Unset
    /\ seeding_mode = "none"
    /\ random_state = Unset
    /\ interventions = <<>>
    /\ initial_conditions = <<>>
    /\ num_weeks = 0
    /\ pc = "idle"
    /\ t = 0
    /\ intro_k = 1
    /\ compartments = <<>>
    /\ snapI = <<>>
    /\ casesNum = <<>>
    /\ facility_impacts = <<>>
    /\ NoRun

\* the largest stochastic_reps the validators accept, and the bounds of
\* run_length_weeks
MaxStochasticReps == 1000
MinRunLengthWeeks == 1
MaxRunLengthWeeks == 52

\* models.py, the validators of RunConfig: whether the request body is
\* rejected
RunConfigRaises(cfg) ==
    \/ cfg.stochastic_reps < MinStochasticReps
    \/ cfg.stochastic_reps > MaxStochasticReps
    \/ cfg.run_length_weeks < MinRunLengthWeeks
    \/ cfg.run_length_weeks > MaxRunLengthWeeks
    \/ (cfg.seeding_mode = "simulate_introduction" /\ cfg.introductions = <<>>)

\* main.py, create_run, for a request body of the given set: a body the
\* validators reject never reaches the route; otherwise the task is handed
\* to the background tasks and the run id is acknowledged as queued; nothing
\* is written to the store
PostRun(bodies) ==
    /\ run_pc = "none"
    /\ \E cfg \in bodies :
          /\ run_config' = << cfg >>
          /\ acked' = ~RunConfigRaises(cfg)
          /\ run_pc' = IF RunConfigRaises(cfg) THEN "rejected" ELSE "queued"
    /\ UNCHANGED <<engineVars, simVars, rep, results, aggregated, rep_start,
                   first_rep_start, storeVars, observed, calibVars, callVars>>

CreateRun == PostRun(RunConfigs)

\* line 56: the task starts and writes "running"; the write of the store may
\* raise
StartTask ==
    /\ run_pc = "queued"
    /\ \E stored \in BOOLEAN :
          IF stored
          THEN status_store' = "running" /\ run_pc' = "prepare"
          ELSE status_store' = status_store /\ run_pc' = "except"
    /\ UNCHANGED <<engineVars, simVars, run_config, acked, rep, results, aggregated,
                   rep_start, first_rep_start, result_store, artifact_store,
                   observed, calibVars, callVars>>

\* lines 60-105: the data adapter loads the snapshot and the profile, or
\* raises; the population is built, the initial conditions are computed and
\* the engine is constructed, which validates its inputs
Prepare ==
    /\ run_pc = "prepare"
    /\ \/ /\ run_pc' = "except"
          /\ UNCHANGED <<engineVars, initial_conditions, build_arguments>>
       \/ \E data_snapshot \in Snapshots, disease_profile \in Profiles :
             LET prm == disease_profile.parameters
                 pop == BuildPopulation(data_snapshot.tracts,
                                        data_snapshot.facilities,
                                        data_snapshot.demographics)
                 detection == IF "detection_multiplier" \in DOMAIN prm
                              THEN prm.detection_multiplier ELSE 3
             IN  /\ build_arguments' =
                        << [tracts |-> data_snapshot.tracts,
                            facilities |-> data_snapshot.facilities,
                            demographics |-> data_snapshot.demographics] >>
                 /\ initial_conditions' =
                        ComputeInitialConditions(data_snapshot.timeseries, detection,
                                                 disease_profile.effectiveness,
                                                 run_config[1].start_date)
                 /\ IF ValidateInputsRaises(pop, prm)
                    THEN /\ run_pc' = "except"
                         /\ UNCHANGED engineVars
                    ELSE /\ population' = pop
                         /\ params' = prm
                         /\ contact_layers' = disease_profile.contact_layers
                         /\ facility_impact_weights' =
                                disease_profile.facility_impact_weights
                         /\ introductions' = <<>>
                         /\ interventions' = <<>>
                         /\ external_force' = Unset
                         /\ seeding_mode' = "none"
                         /\ random_state' = Unset
                         /\ run_pc' = "configure"
    /\ rep' = 0
    /\ results' = <<>>
    /\ UNCHANGED <<num_weeks, pc, t, intro_k, compartments, snapI, casesNum,
                   facility_impacts, run_config, acked, aggregated, rep_start,
                   first_rep_start, storeVars, observed, calibVars,
                   force_argument, results_answer>>

\* lines 110-129 up to the call: the engine is configured for repetition
\* rep and run_simulation is called on it
Configure ==
    /\ run_pc = "configure"
    /\ rep < run_config[1].stochastic_reps
    /\ IF run_config[1].seeding_mode = "simulate_introduction"
       THEN /\ introductions' = run_config[1].introductions
            /\ seeding_mode' = "introductions"
            /\ UNCHANGED <<external_force, force_argument>>
       ELSE /\ external_force' = SetProbabilisticSeeding(<<>>)
            /\ force_argument' = << <<>> >>
            /\ seeding_mode' = "probabilistic"
            /\ UNCHANGED introductions
    /\ interventions' = interventions \o run_config[1].interventions
    /\ num_weeks' = run_config[1].run_length_weeks
    /\ pc' = "start"
    /\ t' = 0
    /\ intro_k' = 1
    /\ run_pc' = "simulating"
    /\ UNCHANGED <<population, params, contact_layers, facility_impact_weights,
                   random_state, initial_conditions, compartments, snapI, casesNum,
                   facility_impacts, run_config, acked, rep, results, aggregated,
                   rep_start, first_rep_start, storeVars, observed, calibVars, build_arguments,
                   results_answer>>

\* what a repetition starts from: the configuration of the engine and the
\* fresh compartments
RepetitionStart(comps) ==
    [introductions |-> introductions, interventions |-> interventions,
     external_force |-> external_force, compartments |-> comps]

\* run_simulation, lines 95-112, called by execute_run
RepInitialize ==
    /\ run_pc = "simulating"
    /\ InitializeEngine
    /\ rep_start' = << RepetitionStart(compartments') >>
    /\ first_rep_start' = IF rep = 0 THEN << RepetitionStart(compartments') >>
                          ELSE first_rep_start
    /\ UNCHANGED <<run_config, acked, run_pc, rep, results, aggregated, storeVars,
                   observed, calibVars, callVars>>

\* line 130: run_simulation has returned and its result is appended
Collect ==
    /\ run_pc = "simulating"
    /\ pc = "done"
    /\ results' = Append(results, [facility_impacts |-> facility_impacts])
    /\ rep' = rep + 1
    /\ run_pc' = IF rep + 1 < run_config[1].stochastic_reps
                 THEN "configure" ELSE "aggregate"
    /\ pc' = "idle"
    /\ compartments' = <<>>
    /\ snapI' = <<>>
    /\ casesNum' = <<>>
    /\ facility_impacts' = <<>>
    /\ UNCHANGED <<engineVars, initial_conditions, num_weeks, t, intro_k,
                   run_config, acked, aggregated, rep_start, first_rep_start,
                   storeVars, observed, calibVars, callVars>>

\* run_simulation has raised: the exception leaves the loop
RepetitionRaised ==
    /\ run_pc = "simulating"
    /\ pc = "failed"
    /\ run_pc' = "except"
    /\ pc' = "idle"
    /\ UNCHANGED <<engineVars, initial_conditions, num_weeks, t, intro_k,
                   compartments, snapI, casesNum, facility_impacts, run_config,
                   acked, rep, results, aggregated, rep_start, first_rep_start,
                   storeVars, observed, calibVars, callVars>>

\* lines 139-144, ArtifactGenerator.generate_artifacts: the JSON summary
\* reads run_config.get(...), which raises on a RunConfig before anything is
\* stored.  With a config that answers get, the summary is stored (the store
\* may raise) and the timeseries export raises TypeError: it iterates the
\* keys of the percentile dict and indexes them with "date".  Lines 148-166
\* (the run result, "completed") are therefore not reached.
GenerateArtifacts ==
    /\ run_pc = "artifacts"
    /\ IF RunConfigHasGet
       THEN \E stored \in BOOLEAN :
               artifact_store' = IF stored THEN artifact_store \cup {"json"}
                                 ELSE artifact_store
       ELSE UNCHANGED artifact_store
    /\ run_pc' = "except"
    /\ UNCHANGED <<engineVars, simVars, run_config, acked, rep, results, aggregated,
                   rep_start, first_rep_start, status_store, result_store,
                   observed, calibVars, callVars>>

\* lines 168-170: "failed" is written; if that write raises, the exception
\* leaves the task
HandleException ==
    /\ run_pc = "except"
    /\ \E stored \in BOOLEAN :
          status_store' = IF stored THEN "failed" ELSE status_store
    /\ run_pc' = "ended"
    /\ UNCHANGED <<engineVars, simVars, run_config, acked, rep, results, aggregated,
                   rep_start, first_rep_start, result_store, artifact_store,
                   observed, calibVars, callVars>>

\* GET /runs/{run_id} after the acknowledgement: the status document, or 404
\* when there is none
StatusAnswer == IF status_store = "absent" THEN "not_found" ELSE status_store

GetRunStatus ==
    /\ acked
    /\ observed' = IF observed # <<>> /\ observed[Len(observed)] = StatusAnswer
                   THEN observed
                   ELSE Append(observed, StatusAnswer)
    /\ UNCHANGED <<engineVars, simVars, runVars, storeVars, calibVars, callVars>>

\* a route that hands out whatever result is stored, without looking at the
\* status
UncheckedResultsAnswer(status, has_result) ==
    IF has_result THEN "result" ELSE "error_500"

\* main.py, get_run_results, and RunService.get_run_results: without a
\* status document get_run_status raises, which the route answers with 500;
\* a status other than completed is answered with 400; otherwise the stored
\* result is returned, or 500 when there is none
ResultsAnswer(status, has_result) ==
    IF status = "absent" THEN "error_500"
    ELSE IF status # "completed" THEN "error_400"
    ELSE IF has_result THEN "result"
    ELSE "error_500"

\* GET /runs/{run_id}/results after the acknowledgement
GetRunResults ==
    /\ acked
    /\ results_answer' = << [status |-> status_store,
                             answer |-> ResultsAnswer(status_store, result_store)] >>
    /\ UNCHANGED <<engineVars, simVars, serviceVars, build_arguments,
                   force_argument>>

NextRun ==
    \/ CreateRun
    \/ StartTask
    \/ Prepare
    \/ Configure
    \/ RepInitialize
    \/ Seed
    \/ Day
    \/ Complete
    \/ Collect
    \/ RepetitionRaised
    \/ Aggregate
    \/ GenerateArtifacts
    \/ HandleException
    \/ GetRunStatus
    \/ GetRunResults

SpecRun == InitRun /\ [][NextRun]_vars

-----------------------------------------------------------------------------
(* Properties of the aggregation *)

RECURSIVE InsertSorted(_, _)
InsertSorted(x, sorted) ==
    IF sorted = <<>> THEN <<x>>
    ELSE IF x <= Head(sorted) THEN <<x>> \o sorted
    ELSE <<Head(sorted)>> \o InsertSorted(x, Tail(sorted))

RECURSIVE Sorted(_)
Sorted(values) ==
    IF values = <<>> THEN <<>> ELSE InsertSorted(Head(values), Sorted(Tail(values)))

PercentileRank(q) ==
    CASE q = "p5" -> 5 [] q = "p25" -> 25 [] q = "p50" -> 50
      [] q = "p75" -> 75 [] q = "p95" -> 95

\* 100 times the q-th percentile of the values by linear interpolation
\* between order statistics (the median of an even number of values is the
\* midpoint of the two middle ones)
Percentile100(values, q) ==
    LET sorted == Sorted(values)
        pos == PercentileRank(q) * (Len(sorted) - 1)
        lo == pos \div 100
        frac == pos % 100
    IN  IF frac = 0 THEN 100 * sorted[lo + 1]
        ELSE 100 * sorted[lo + 1] + frac * (sorted[lo + 2] - sorted[lo + 1])

Aggregated == aggregated # <<>>

\* C8: for every metric and every simulated day, the p5/p25/p50/p75/p95
\* values returned by _aggregate_results are the order-statistic percentiles
\* of that day's values across the repetition results, with one entry per
\* simulated day.
C8_OrderStatisticPercentiles ==
    Aggregated =>
        \A m \in Metrics : \A q \in Percentiles :
            LET series == aggregated[1].timeseries[m][q]
                days == Len(results[1].metrics[m])
            IN  /\ Len(series) = days
                /\ \A d \in 1..days :
                      100 * series[d].value =
                          Percentile100([r \in 1..Len(results) |->
                                            results[r].metrics[m][d]], q)

\* the facility ids in the facility impacts of the repetitions
RepetitionFacilityIds ==
    UNION { DOMAIN results[r].facility_impacts : r \in 1..Len(results) }

\* C9: the aggregated facility impact list has one entry per facility id that
\* occurs in the repetitions' facility impacts, and each entry's risk band is
\* the band derived from its merged capacity_impact_pct by the rule > 30 high,
\* > 15 medium, otherwise low.
C9_MergedFacilityImpacts ==
    Aggregated =>
        LET merged == aggregated[1].facility_impacts
        IN  /\ { merged[k].facility_id : k \in 1..Len(merged) } = RepetitionFacilityIds
            /\ Len(merged) = Cardinality(RepetitionFacilityIds)
            /\ \A k \in 1..Len(merged) :
                  merged[k].risk_band = RiskBand(merged[k].capacity_impact_pct)

-----------------------------------------------------------------------------
(* Properties of one run *)

\* C5: the repetitions of one run share no mutable state: at the start of
\* every repetition the engine's configuration (introductions list,
\* interventions list, external force) and the freshly initialized
\* compartments are the same as at the start of the first repetition.
C5_RepetitionsShareNoState ==
    rep_start # <<>> => rep_start = first_rep_start

Statuses == {"queued", "running", "completed", "failed"}

StatusRank(status) ==
    CASE status = "queued" -> 1
      [] status = "running" -> 2
      [] status \in {"completed", "failed"} -> 3

\* C6: once POST /runs has acknowledged the run, every status query succeeds
\* with a status in {queued, running, completed, failed}, and the statuses
\* observed over time follow the order queued, running, then exactly one of
\* completed or failed, which never changes afterwards.
C6_StatusQueries ==
    /\ \A k \in 1..Len(observed) : observed[k] \in Statuses
    /\ \A j, k \in 1..Len(observed) :
          j < k => StatusRank(observed[j]) < StatusRank(observed[k])

\* C7: whenever the stored status of a run is failed, no run result and no
\* artifact has been persisted for it.
C7_NoPartialPersistence ==
    status_store = "failed" => ~result_store /\ artifact_store = {}

\* the run failed in artifact generation, after all repetitions and the
\* aggregation
C7_Witness ==
    /\ status_store = "failed"
    /\ Len(results) = MinStochasticReps
    /\ aggregated # <<>>
    /\ run_pc = "ended"

-----------------------------------------------------------------------------
(* The force of infection over populations in every order *)

\* two tracts, a nursing home with residents and staff in the first tract and
\* a school in the second
TieredPopulation ==
    << TractAgent(T53, ADULT, 1),
       TractAgent(T54, ADULT, 1),
       FacilityAgent(F1, "nursing_home", T53, SENIOR, RESIDENT, 1),
       FacilityAgent(F1, "nursing_home", T53, STAFF, STAFF, 1),
       FacilityAgent(F12, "school", T54, ADULT, RESIDENT, 1) >>

\* orders of the agents: as built, reversed, and two that interleave the
\* tracts and the facilities
AgentOrders ==
    { <<1, 2, 3, 4, 5>>, <<5, 4, 3, 2, 1>>, <<3, 1, 5, 2, 4>>, <<4, 2, 1, 5, 3>> }

\* the population in each of these orders
PopulationOrders ==
    { [k \in DOMAIN TieredPopulation |-> TieredPopulation[order[k]]] :
        order \in AgentOrders }

InitFoI ==
    /\ population \in PopulationOrders
    /\ params = Params(12, 5, 2)
    /\ contact_layers = ContactLayers
    /\ facility_impact_weights = [k \in {"nursing_home"} |-> 6]
    /\ introductions = <<>>
    /\ \E sd \in { [external_force |-> Unset, seeding_mode |-> "none"],
                    [external_force |-> <<DefaultExternalForce>>,
                     seeding_mode |-> "probabilistic"] } :
          /\ external_force = sd.external_force
          /\ seeding_mode = sd.seeding_mode
          /\ random_state = Unset
    /\ interventions = <<>>
    /\ initial_conditions = Fractions(0, 0, 1000, 0)
    /\ num_weeks = 1
    /\ pc = "start"
    /\ t = 0
    /\ intro_k = 1
    /\ compartments = <<>>
    /\ snapI = <<>>
    /\ casesNum = <<>>
    /\ facility_impacts = <<>>
    /\ NoRun

NextFoI == Initialize \/ Day

\* run_simulation on the tiered population, up to the last day
SpecFoI == InitFoI /\ [][NextFoI]_vars

-----------------------------------------------------------------------------
(* Properties of the force of infection *)

\* the agents with their compartments, as a set: it has no order
AgentStates == { [agent |-> population[a], comp |-> compartments[a]] : a \in Agents }

\* the infectious pressure of one agent, in the units of InfectiousPressure
PressureOf(x) ==
    IF x.comp.I = 0 \/ x.comp.total <= 0 THEN 0
    ELSE x.comp.I * (PopDen(compartments) \div x.comp.total)
           * params.transmissibility_base * CalculateSeasonalFactor
           * (IF x.agent.type = "tract" THEN contact_layers["community"]
              ELSE IF x.agent.facility_type \in DOMAIN contact_layers
                   THEN contact_layers[x.agent.facility_type] ELSE 10)

\* the summed pressure of the agents of a set
SummedPressure(group) == Sum([x \in group |-> PressureOf(x)], group)

TractAgentsIn(tract_fips) ==
    { x \in AgentStates : x.agent.type = "tract" /\ x.agent.tract_fips = tract_fips }

FacilityAgentsIn(tract_fips) ==
    { x \in AgentStates : x.agent.type = "facility" /\ x.agent.tract_fips = tract_fips }

AgentsOfFacility(facility_id) ==
    { x \in AgentStates : x.agent.type = "facility" /\ x.agent.facility_id = facility_id }

\* the force of infection on a target by the tiers, in the units of
\* ComputeForceOfInfection
TieredForce(target) ==
    (IF external_force # Unset THEN external_force[1] ELSE 0)
        * 10000 * PopDen(compartments)
    + ForceDen *
        (IF target.type = "tract"
         THEN 7 * SummedPressure(TractAgentsIn(target.tract_fips))
            + 3 * SummedPressure(FacilityAgentsIn(target.tract_fips))
         ELSE 8 * SummedPressure(AgentsOfFacility(target.facility_id))
            + 2 * SummedPressure(TractAgentsIn(target.tract_fips)))

-----------------------------------------------------------------------------
(* The pre-run configuration calls of the engine, followed by one run *)

MaxInterventions == 1

\* a tract age group of one individual and one resident of a facility in
\* the same tract
ConfigPopulation ==
    << TractAgent(T53, ADULT, 1),
       FacilityAgent(F1, "nursing_home", T53, SENIOR, RESIDENT, 1) >>

\* the lists set_introductions is called with: an introduction whose
\* facility no agent belongs to followed by one that matches the resident,
\* and one introduction into the tract
ConfigIntroductionLists ==
    { << FacilityIntroduction(F9, RESIDENT, 1), FacilityIntroduction(F1, RESIDENT, 1) >>,
      << TractIntroduction(T53, RESIDENT, 1) >> }

\* the arguments of set_probabilistic_seeding: none, 0.0 and 0.0005
ExternalForceArguments == { <<>>, <<0>>, <<5>> }

\* a constructed engine (lines 41-52) that no call has configured yet
InitConfig ==
    /\ population = ConfigPopulation
    /\ params = Params(0, 5, 2)
    /\ contact_layers = ContactLayers
    /\ facility_impact_weights = [k \in {"nursing_home"} |-> 6]
    /\ introductions = <<>>
    /\ external_force = Unset
    /\ seeding_mode = "none"
    /\ random_state = Unset
    /\ interventions = <<>>
    /\ initial_conditions = Fractions(FracDen, 0, 0, 0)
    /\ num_weeks = 1
    /\ pc = "start"
    /\ t = 0
    /\ intro_k = 1
    /\ compartments = <<>>
    /\ snapI = <<>>
    /\ casesNum = <<>>
    /\ facility_impacts = <<>>
    /\ NoRun

\* lines 74-76: the list is stored; nothing else of the engine is touched
CallSetIntroductions ==
    /\ pc = "start"
    /\ run_pc = "none"
    /\ introductions' \in ConfigIntroductionLists
    /\ seeding_mode' = "introductions"
    /\ UNCHANGED <<population, params, contact_layers, facility_impact_weights,
                   interventions, external_force, random_state, simVars,
                   serviceVars, callVars>>

\* lines 78-81: the attribute external_force is set
CallSetProbabilisticSeeding ==
    /\ pc = "start"
    /\ run_pc = "none"
    /\ \E force \in ExternalForceArguments :
          /\ force_argument' = << force >>
          /\ external_force' = SetProbabilisticSeeding(force)
    /\ seeding_mode' = "probabilistic"
    /\ UNCHANGED <<population, params, contact_layers, facility_impact_weights,
                   introductions, interventions, random_state, simVars,
                   serviceVars, build_arguments, results_answer>>

\* lines 83-86: the intervention is appended
CallApplyIntervention ==
    /\ pc = "start"
    /\ run_pc = "none"
    /\ Len(interventions) < MaxInterventions
    /\ interventions' = Append(interventions, Intervention("vaccination", F1))
    /\ UNCHANGED <<population, params, contact_layers, facility_impact_weights,
                   introductions, external_force, seeding_mode, random_state,
                   simVars, serviceVars, callVars>>

NextConfig ==
    \/ CallSetIntroductions
    \/ CallSetProbabilisticSeeding
    \/ CallApplyIntervention
    \/ Initialize
    \/ Seed
    \/ Day
    \/ Complete

SpecConfig == InitConfig /\ [][NextConfig]_vars

\* C12 as claimed: whatever pre-run calls of set_introductions and
\* set_probabilistic_seeding were made, an engine whose last seeding call
\* was set_introductions adds no external force to the force of infection
\* on any day of its run.
C12_NoExternalForceUnderIntroductions ==
    (pc = "stepping" /\ seeding_mode = "introductions") => ExternalTerm = 0

\* C13: with interventions registered, every day leaves compartments that
\* the update of the day alone can leave, and the facility impacts of the
\* run are those computed from the saved states alone: what a run without
\* interventions produces from the same state with the same draws.
C13_InterventionsHaveNoEffect ==
    [][interventions # <<>> =>
          /\ (pc = "stepping" /\ pc' = "stepping") =>
                compartments' \in
                    UpdateCompartments(compartments,
                                       ComputeForceOfInfection(compartments))
          /\ (pc = "stepping" /\ pc' = "done") =>
                /\ compartments' = compartments
                /\ facility_impacts' \in
                      CalculateFacilityImpacts(
                          casesNum, [a \in Agents |-> compartments[a].total])]_vars

\* a run with an intervention registered has reached its last day with an
\* individual still susceptible and another one recovered
C13_Witness ==
    /\ interventions # <<>>
    /\ pc = "done"
    /\ \E a \in Agents : compartments[a].S > 0
    /\ \E a \in Agents : compartments[a].R > 0

-----------------------------------------------------------------------------
(* Two engines built the same way and given the same seed, one run each *)

MaxSeed == 3

\* fractions whose products with a count are computed exactly
TwinInitialConditions == { Fractions(500, 0, 500, 0), Fractions(0, 500, 500, 0) }

\* the first engine as constructed; `results` holds what run_simulation
\* returns, one entry per engine
InitTwin ==
    /\ population = SmallPopulation
    /\ params = Params(12, 5, 2)
    /\ contact_layers = ContactLayers
    /\ facility_impact_weights = [k \in {"nursing_home"} |-> 6]
    /\ \E sd \in StepSeedings :
          /\ introductions = sd.introductions
          /\ external_force = sd.external_force
          /\ seeding_mode = sd.seeding_mode
    /\ random_state = Unset
    /\ interventions = <<>>
    /\ initial_conditions \in TwinInitialConditions
    /\ num_weeks = 1
    /\ pc = "start"
    /\ t = 0
    /\ intro_k = 1
    /\ compartments = <<>>
    /\ snapI = <<>>
    /\ casesNum = <<>>
    /\ facility_impacts = <<>>
    /\ NoRun

\* lines 70-72: the engine gets a generator of its own, made from the seed
CallSetRandomSeed ==
    /\ pc = "start"
    /\ run_pc = "none"
    /\ random_state = Unset
    /\ \E seed \in 1..MaxSeed : random_state' = <<seed, 0>>
    /\ UNCHANGED <<configVars, simVars, serviceVars, callVars>>

\* lines 98-108: the dict run_simulation fills and returns
EmptyResult == [compartments |-> <<>>, cases |-> <<>>, facility_impacts |-> <<>>]

\* run_simulation called immediately after set_random_seed
TwinInitialize ==
    /\ run_pc = "none"
    /\ random_state # Unset
    /\ InitializeEngine
    /\ results' = Append(results, EmptyResult)
    /\ UNCHANGED <<run_config, acked, run_pc, rep, aggregated, rep_start,
                   first_rep_start, storeVars, observed, calibVars, callVars>>

\* the sum over the agents of new_infectious (line 305), which is the
\* increase of I + R
NewCases(before, after) ==
    Sum([a \in DOMAIN before |->
            (after[a].I + after[a].R) - (before[a].I + before[a].R)],
        DOMAIN before)

\* a day whose saved state (line 119) and cases metric (line 134) are kept
\* in the result
RecordedDay ==
    /\ DayEngine
    /\ results' =
          IF pc' = "failed" THEN results
          ELSE [results EXCEPT
                  ![Len(results)].compartments = Append(@, compartments),
                  ![Len(results)].cases = Append(@, NewCases(compartments, compartments'))]
    /\ UNCHANGED <<run_config, acked, run_pc, rep, aggregated, rep_start,
                   first_rep_start, storeVars, observed, calibVars, callVars>>

\* a facility impact without the rounding of its float, which is the same
\* function in both engines
ExactImpact(impact) ==
    [facility_id |-> impact.facility_id,
     facility_type |-> impact.facility_type,
     num |-> impact.capacity_impact_pct.num,
     den |-> impact.capacity_impact_pct.den]

\* lines 138-144: the facility impacts complete the result
RecordedComplete ==
    /\ CompleteEngine
    /\ results' =
          [results EXCEPT
             ![Len(results)].facility_impacts =
                 [fid \in DOMAIN facility_impacts' |-> ExactImpact(facility_impacts'[fid])]]
    /\ UNCHANGED <<run_config, acked, run_pc, rep, aggregated, rep_start,
                   first_rep_start, storeVars, observed, calibVars, callVars>>

\* the second engine: constructed from the same population, parameters,
\* contact layers and seeding configuration, and given the seed of the first
SecondEngine ==
    /\ pc = "done"
    /\ Len(results) = 1
    /\ random_state' = <<random_state[1], 0>>
    /\ pc' = "start"
    /\ t' = 0
    /\ intro_k' = 1
    /\ compartments' = <<>>
    /\ snapI' = <<>>
    /\ casesNum' = <<>>
    /\ facility_impacts' = <<>>
    /\ UNCHANGED <<configVars, initial_conditions, num_weeks, serviceVars, callVars>>

NextTwin ==
    \/ CallSetRandomSeed
    \/ TwinInitialize
    \/ Seed
    \/ RecordedDay
    \/ RecordedComplete
    \/ SecondEngine

SpecTwin == InitTwin /\ [][NextTwin]_vars

IsPrefix(p, q) == Len(p) <= Len(q) /\ \A k \in 1..Len(p) : p[k] = q[k]

-----------------------------------------------------------------------------
(* The construction of an engine, followed by one run *)

Without(prm, key) == [k \in DOMAIN prm \ {key} |-> prm[k]]

\* the parameters the constructor is handed: complete, with one required
\* parameter missing, and with none at all
ConstructorParams ==
    { Params(12, 5, 2), <<>> }
        \cup { Without(Params(12, 5, 2), key) : key \in RequiredParams }

ConstructorPopulations == { <<>>, SmallPopulation }

\* lines 43-49: the arguments are stored before they are validated
InitConstruct ==
    /\ population \in ConstructorPopulations
    /\ params \in ConstructorParams
    /\ contact_layers = ContactLayers
    /\ facility_impact_weights = [k \in {"nursing_home"} |-> 6]
    /\ introductions = <<>>
    /\ external_force = Unset
    /\ seeding_mode = "none"
    /\ random_state = Unset
    /\ interventions = <<>>
    /\ initial_conditions \in { Fractions(900, 10, 10, 80), Fractions(500, 0, 500, 0) }
    /\ num_weeks = 1
    /\ pc = "constructing"
    /\ t = 0
    /\ intro_k = 1
    /\ compartments = <<>>
    /\ snapI = <<>>
    /\ casesNum = <<>>
    /\ facility_impacts = <<>>
    /\ NoRun

\* lines 51-52: the constructor returns the engine, or raises ValueError
Construct ==
    /\ pc = "constructing"
    /\ pc' = IF ValidateInputsRaises(population, params) THEN "failed" ELSE "start"
    /\ UNCHANGED <<engineVars, initial_conditions, num_weeks, t, intro_k,
                   compartments, snapI, casesNum, facility_impacts, serviceVars, callVars>>

NextConstruct == Construct \/ Initialize \/ Day \/ Complete

SpecConstruct == InitConstruct /\ [][NextConstruct]_vars

HasRequiredInputs ==
    /\ RequiredParams \subseteq DOMAIN params
    /\ population # <<>>

\* C15: when a required parameter is missing or the population is empty the
\* constructor raises, and no compartment is ever initialized and no step
\* executed; when the four parameters are present and the population is not
\* empty the constructor does not raise.
C15_ConstructionValidates ==
    /\ pc = "failed" => (~HasRequiredInputs /\ compartments = <<>> /\ t = 0)
    /\ pc \notin {"constructing", "failed"} => HasRequiredInputs
    /\ (compartments # <<>> \/ t > 0) => HasRequiredInputs

\* a constructor has raised for a population without agents although all
\* four parameters were there
C15_Witness ==
    /\ pc = "failed"
    /\ population = <<>>
    /\ RequiredParams \subseteq DOMAIN params

-----------------------------------------------------------------------------
(* Introductions without matching agents *)

Unmatched(intro) == IsMapping(intro) /\ TargetAgents(population, intro) = {}

-----------------------------------------------------------------------------
(* CalibrationService._calculate_rmse *)

\* float("inf")
Infinity == [inf |-> TRUE]

\* point.get(metric, 0)
PointValue(point, metric) == IF metric \in DOMAIN point THEN point[metric] ELSE 0

\* lines 245-265: for every metric of the first result, the mean over the
\* sim_results that have it, per index, as [sum, n] for sum / n
AggregateCalibrationResults(sim_results) ==
    IF sim_results = <<>> THEN <<>>
    ELSE [m \in { metric \in Metrics : metric \in DOMAIN sim_results[1].metrics } |->
            LET having == SelectSeq(sim_results, LAMBDA r : m \in DOMAIN r.metrics)
            IN  [d \in 1..Len(having[1].metrics[m]) |->
                    [sum |-> Sum([k \in 1..Len(having) |-> having[k].metrics[m][d]],
                                 1..Len(having)),
                     n |-> Len(having)]]]

\* line 232 and line 236: the metrics that enter the mean
ComparableMetrics(aggregated_results, observed_data) ==
    { m \in Metrics :
        /\ m \in DOMAIN aggregated_results
        /\ m \in DOMAIN observed_data[1]
        /\ Len(aggregated_results[m]) = Len(observed_data) }

\* line 237: the mean squared error of one metric as num / den, where the
\* simulated value at index d is sum / n
MeanSquaredError(simulated, observed_data, m) ==
    [num |-> Sum([d \in 1..Len(observed_data) |->
                    (simulated[d].sum - simulated[d].n * PointValue(observed_data[d], m))
                  * (simulated[d].sum - simulated[d].n * PointValue(observed_data[d], m))],
                 1..Len(observed_data)),
     den |-> simulated[1].n * simulated[1].n * Len(observed_data)]

\* lines 220-243: infinity, or the mean over the comparable metrics m of
\* sqrt(mse[m])
CalculateRmse(sim_results, observed_data) ==
    IF sim_results = <<>> \/ observed_data = <<>> THEN Infinity
    ELSE LET aggregated_results == AggregateCalibrationResults(sim_results)
             comparable == ComparableMetrics(aggregated_results, observed_data)
         IN  IF comparable = {} THEN Infinity
             ELSE [inf |-> FALSE,
                   mse |-> [m \in comparable |->
                              MeanSquaredError(aggregated_results[m], observed_data, m)]]

-----------------------------------------------------------------------------
(* One calibration: POST /calibrate and the background task
   CalibrationService.execute_calibration; and the validation of POST /runs *)

MinCalibrationWindowWeeks == 4
MaxCalibrationWindowWeeks == 52

\* the repetitions one objective evaluation is limited to (line 151)
MaxObjectiveReps == 10

\* validators that test the lower bounds only
LowerBoundsOnly(cfg) ==
    \/ cfg.calibration_window_weeks < MinCalibrationWindowWeeks
    \/ cfg.stochastic_reps < MinStochasticReps

\* models.py, the validators of CalibrationConfig: whether the request body
\* is rejected
CalibrationConfigRaises(cfg) ==
    \/ cfg.calibration_window_weeks < MinCalibrationWindowWeeks
    \/ cfg.calibration_window_weeks > MaxCalibrationWindowWeeks
    \/ cfg.stochastic_reps < MinStochasticReps
    \/ cfg.stochastic_reps > MaxStochasticReps

\* request bodies at and beyond the bounds of the validators, fitting the
\* transmissibility alone or all four parameters
CalibrationRequests ==
    { [calibration_window_weeks |-> w, stochastic_reps |-> r,
       params_to_fit |-> fit] :
        w \in { MinCalibrationWindowWeeks - 1, MinCalibrationWindowWeeks,
                MaxCalibrationWindowWeeks, MaxCalibrationWindowWeeks + 1 },
        r \in { MinStochasticReps - 1, MinStochasticReps,
                MaxStochasticReps, MaxStochasticReps + 1 },
        fit \in { << "transmissibility_base" >>,
                  << "transmissibility_base", "detection_multiplier",
                     "incubation_period_days", "infectious_period_days" >> } }

RunRequests ==
    { [seeding_mode |-> "probabilistic", introductions |-> <<>>,
       interventions |-> <<>>, stochastic_reps |-> r,
       run_length_weeks |-> 1, start_date |-> 30] :
        r \in { MinStochasticReps - 1, MinStochasticReps,
                MaxStochasticReps, MaxStochasticReps + 1 } }

\* datetime.now() as a day number
Now == 60

\* the timeseries of the snapshot: none, weeks long ago, and weeks of which
\* two end within the last four weeks
CalibrationTimeseries ==
    { <<>>,
      << Week(14, 3, <<>>), Week(7, 2, <<>>) >>,
      << Week(49, 4, <<>>), Week(14, 3, <<>>), Week(42, 5, <<>>) >> }

\* lines 101-117 after the snapshot is loaded
RecentData(timeseries, now, window_weeks) ==
    IF timeseries = <<>> THEN <<>>
    ELSE SelectSeq(SortByDate(timeseries),
                   LAMBDA ts : ts.week_end_date >= now - DaysPerWeek * window_weeks)

\* a test that never finds the recent data missing
NeverMissing(recent) == FALSE

\* line 55: if not recent_data
RecentDataMissing(recent) == recent = <<>>

\* lines 120-124: "For now, return a placeholder"
CalibrationBuildPopulation(tracts, facilities, demographics) == <<>>

\* lines 137-139: the candidate values replace the fitted parameters
UpdatedParams(base_params, params_to_fit, candidate) ==
    [k \in DOMAIN base_params |->
        IF \E i \in 1..Len(params_to_fit) : params_to_fit[i] = k
        THEN candidate[CHOOSE i \in 1..Len(params_to_fit) : params_to_fit[i] = k]
        ELSE base_params[k]]

\* what run_simulation returns for n weeks, as far as the objective reads
\* it: for every metric one value per day
EngineResults(n) ==
    { [metrics |-> [m \in Metrics |-> [d \in 1..(DaysPerWeek * n) |-> v]]] :
        v \in {0, 1} }

InitCalib ==
    /\ population = <<>>
    /\ params = <<>>
    /\ contact_layers = <<>>
    /\ facility_impact_weights = <<>>
    /\ introductions = <<>>
    /\ external_force = Unset
    /\ seeding_mode = "none"
    /\ random_state = Unset
    /\ interventions = <<>>
    /\ initial_conditions = <<>>
    /\ num_weeks = 0
    /\ pc = "idle"
    /\ t = 0
    /\ intro_k = 1
    /\ compartments = <<>>
    /\ snapI = <<>>
    /\ casesNum = <<>>
    /\ facility_impacts = <<>>
    /\ NoRun

\* POST /runs with a request body at or beyond the bounds
PostRunRequest == PostRun(RunRequests)

\* main.py, calibrate: a body the validators reject never reaches the
\* route; otherwise the task is handed to the background tasks
Calibrate ==
    /\ calib_pc = "none"
    /\ \E body \in CalibrationRequests :
          /\ calibration_request' = << body >>
          /\ calib_pc' = IF CalibrationConfigRaises(body) THEN "rejected" ELSE "queued"
    /\ UNCHANGED <<engineVars, simVars, runVars, storeVars, observed, callVars,
                   calib_timeseries, calib_recent, optimizer_invoked,
                   objective_reps, objective_value, calibrated_store,
                   calibration_error_store>>

\* lines 48-56: the data adapter raises
LoadRaises ==
    /\ calib_pc = "queued"
    /\ calib_pc' = "except"
    /\ UNCHANGED <<engineVars, simVars, runVars, storeVars, observed, callVars,
                   calibration_request, calib_timeseries, calib_recent,
                   optimizer_invoked, objective_reps, objective_value,
                   calibrated_store, calibration_error_store>>

\* lines 48-56: the data adapter returns a snapshot, its timeseries is
\* filtered, and ValueError is raised when nothing is left
LoadRecentData ==
    /\ calib_pc = "queued"
    /\ \E timeseries \in CalibrationTimeseries :
          LET recent == RecentData(timeseries, Now,
                                   calibration_request[1].calibration_window_weeks)
          IN  /\ calib_timeseries' = << timeseries >>
              /\ calib_recent' = << recent >>
              /\ calib_pc' = IF RecentDataMissing(recent) THEN "except" ELSE "prepare"
    /\ UNCHANGED <<engineVars, simVars, runVars, storeVars, observed, callVars,
                   calibration_request, optimizer_invoked, objective_reps,
                   objective_value, calibrated_store, calibration_error_store>>

\* lines 58-71: the profile and the snapshot are loaded, or the adapter
\* raises; the population is built
PrepareCalibration ==
    /\ calib_pc = "prepare"
    /\ calib_pc' \in {"except", "optimizing"}
    /\ UNCHANGED <<engineVars, simVars, runVars, storeVars, observed, callVars,
                   calibration_request, calib_timeseries, calib_recent,
                   optimizer_invoked, objective_reps, objective_value,
                   calibrated_store, calibration_error_store>>

\* lines 73-88 and 126-188: minimize evaluates the objective at the base
\* values first.  The objective constructs an engine for the built
\* population, which raises when validation fails; otherwise it runs its
\* repetitions and returns the error, minimize returns some result and the
\* calibrated parameters are stored.
Optimize ==
    /\ calib_pc = "optimizing"
    /\ optimizer_invoked' = TRUE
    /\ LET cfg == calibration_request[1]
           base_params == Params(12, 5, 2)
           built == CalibrationBuildPopulation(<<>>, <<>>, <<>>)
           updated == UpdatedParams(base_params, cfg.params_to_fit,
                          [i \in 1..Len(cfg.params_to_fit) |->
                              base_params[cfg.params_to_fit[i]]])
           reps == Min(cfg.stochastic_reps, MaxObjectiveReps)
       IN  IF ValidateInputsRaises(built, updated)
           THEN /\ calib_pc' = "except"
                /\ UNCHANGED <<objective_reps, objective_value, calibrated_store>>
           ELSE /\ objective_reps' = reps
                /\ \E sim_results \in [1..reps -> EngineResults(Len(calib_recent[1]))] :
                      objective_value' =
                          << CalculateRmse(sim_results, calib_recent[1]) >>
                /\ calibrated_store' = TRUE
                /\ calib_pc' = "done"
    /\ UNCHANGED <<engineVars, simVars, runVars, storeVars, observed, callVars,
                   calibration_request, calib_timeseries, calib_recent,
                   calibration_error_store>>

\* lines 92-95: the exception is logged and an error file is written
HandleCalibrationException ==
    /\ calib_pc = "except"
    /\ calibration_error_store' = TRUE
    /\ calib_pc' = "failed"
    /\ UNCHANGED <<engineVars, simVars, runVars, storeVars, observed, callVars,
                   calibration_request, calib_timeseries, calib_recent,
                   optimizer_invoked, objective_reps, objective_value,
                   calibrated_store>>

NextCalib ==
    \/ PostRunRequest
    \/ Calibrate
    \/ LoadRaises
    \/ LoadRecentData
    \/ PrepareCalibration
    \/ Optimize
    \/ HandleCalibrationException

SpecCalib == InitCalib /\ [][NextCalib]_vars

\* C17: a calibration request whose calibration_window_weeks is outside
\* [4, 52] or whose stochastic_reps is outside [10, 1000] is rejected: no
\* task is queued for it, nothing is loaded, optimized or stored; and a run
\* request whose stochastic_reps is outside [10, 1000] is rejected, never
\* acknowledged and never started.
C17_InvalidRequestsRejected ==
    /\ (/\ calib_pc # "none"
        /\ \/ calibration_request[1].calibration_window_weeks \notin 4..52
           \/ calibration_request[1].stochastic_reps \notin 10..1000) =>
          /\ calib_pc = "rejected"
          /\ calib_timeseries = <<>>
          /\ ~optimizer_invoked
          /\ ~calibrated_store
          /\ ~calibration_error_store
    /\ (run_pc # "none" /\ run_config[1].stochastic_reps \notin 10..1000) =>
          /\ run_pc = "rejected"
          /\ ~acked
          /\ status_store = "absent"
          /\ pc = "idle"

\* a calibration request with a window of 53 weeks and a run request with
\* 1001 repetitions have been rejected
C17_Witness ==
    /\ calib_pc = "rejected"
    /\ calibration_request[1].calibration_window_weeks = 53
    /\ calibration_request[1].stochastic_reps = 10
    /\ run_pc = "rejected"
    /\ run_config[1].stochastic_reps = 1001

C20_ObjectiveRunsRepetitions ==
    optimizer_invoked =>
        /\ objective_reps = Min(calibration_request[1].stochastic_reps, 10)
        /\ objective_value # <<>>

\* C21 as claimed: for the window of weekly observations with cases that
\* the calibration has loaded, the objective's error over every output the
\* engine can return for that window (one run_simulation of as many weeks
\* as there are observations) compares the cases series and is finite.
C21_ObjectiveFiniteOnEngineOutput ==
    (/\ calib_pc = "optimizing"
     /\ \A k \in 1..Len(calib_recent[1]) : "cases" \in DOMAIN calib_recent[1][k]) =>
        \A r \in EngineResults(Len(calib_recent[1])) :
            LET value == CalculateRmse(<< r >>, calib_recent[1])
            IN  /\ ~value.inf
                /\ "cases" \in DOMAIN value.mse

-----------------------------------------------------------------------------
(* RunService._build_population on its own *)

Demographics(tract_fips, age_distribution) ==
    [tract_fips |-> tract_fips, age_distribution |-> age_distribution]

Facility(facility_id, tract_fips, resident_age_profile, staff_count) ==
    [facility_id |-> facility_id, type |-> "nursing_home", tract_fips |-> tract_fips,
     resident_age_profile |-> resident_age_profile, staff_count |-> staff_count]

\* snapshots of one or two tracts, the second with or without demographics,
\* and of no or one facility; every count from 0 to MaxCount
BuildArguments ==
    { [tracts |-> tracts, facilities |-> facilities, demographics |-> demographics] :
        tracts \in { << T53 >>, << T53, T54 >> },
        demographics \in
            { << Demographics(T53, << <<ADULT, c1>>, <<SENIOR, c2>> >>) >> \o more :
                c1 \in 0..MaxCount, c2 \in 0..MaxCount,
                more \in { <<>>, << Demographics(T54, << <<ADULT, 0>> >>) >>,
                          << Demographics(T54, << <<ADULT, MaxCount>> >>) >> } },
        facilities \in
            { <<>> } \cup
            { << Facility(F1, T53, << <<SENIOR, c3>>, <<ADULT, 0>> >>, staff) >> :
                c3 \in 0..MaxCount, staff \in 0..MaxCount } }

InitBuild ==
    /\ population = <<>>
    /\ params = <<>>
    /\ contact_layers = <<>>
    /\ facility_impact_weights = <<>>
    /\ introductions = <<>>
    /\ external_force = Unset
    /\ seeding_mode = "none"
    /\ random_state = Unset
    /\ interventions = <<>>
    /\ initial_conditions = <<>>
    /\ num_weeks = 0
    /\ pc = "idle"
    /\ t = 0
    /\ intro_k = 1
    /\ compartments = <<>>
    /\ snapI = <<>>
    /\ casesNum = <<>>
    /\ facility_impacts = <<>>
    /\ NoRun

\* line 88: population = self._build_population(tracts, facilities,
\* demographics)
CallBuildPopulation ==
    /\ build_arguments = <<>>
    /\ \E arguments \in BuildArguments :
          /\ build_arguments' = << arguments >>
          /\ population' = BuildPopulation(arguments.tracts, arguments.facilities,
                                           arguments.demographics)
    /\ UNCHANGED <<params, contact_layers, facility_impact_weights, introductions,
                   interventions, external_force, seeding_mode, random_state,
                   simVars, serviceVars, force_argument, results_answer>>

NextBuild == CallBuildPopulation

SpecBuild == InitBuild /\ [][NextBuild]_vars

\* the number of agents of a population that pass a test
CountAgents(pop, Test(_)) == Cardinality({ k \in DOMAIN pop : Test(pop[k]) })

\* C22: the population built from the recorded arguments holds exactly one
\* tract agent, with the count of the group, for every age group (of whatever
\* count) in the demographics of every input tract; exactly one resident
\* agent for every age group with residents of every facility and none for
\* a group without; exactly one staff agent for every facility with staff
\* and none otherwise; and no other agent.
C22_BuildPopulation ==
    build_arguments # <<>> =>
      LET arguments == build_arguments[1]
          Groups(seq) == { seq[k] : k \in DOMAIN seq }
          TractGroups(fips) ==
              UNION { Groups(arguments.demographics[k].age_distribution) :
                        k \in { j \in DOMAIN arguments.demographics :
                                  arguments.demographics[j].tract_fips = fips } }
          Facilities == Groups(arguments.facilities)
          Expected ==
              UNION { { TractAgent(fips, g[1], g[2]) : g \in TractGroups(fips) } :
                      fips \in Groups(arguments.tracts) }
              \cup
              UNION { { FacilityAgent(f.facility_id, f.type, f.tract_fips, g[1],
                                      RESIDENT, g[2]) :
                          g \in { x \in Groups(f.resident_age_profile) : x[2] > 0 } } :
                      f \in Facilities }
              \cup
              { FacilityAgent(f.facility_id, f.type, f.tract_fips, STAFF, STAFF,
                              f.staff_count) :
                  f \in { x \in Facilities : x.staff_count > 0 } }
      IN  /\ \A agent \in Expected :
                CountAgents(population, LAMBDA a : a = agent) = 1
          /\ \A k \in DOMAIN population : population[k] \in Expected
          /\ \A f \in Facilities : \A g \in Groups(f.resident_age_profile) :
                g[2] = 0 =>
                  CountAgents(population,
                              LAMBDA a : /\ a.type = "facility"
                                         /\ a.facility_id = f.facility_id
                                         /\ a.age_group = g[1]) = 0
          /\ \A f \in Facilities :
                f.staff_count = 0 =>
                  CountAgents(population,
                              LAMBDA a : a.type = "facility" /\ a.group = STAFF) = 0

\* a population was built for two tracts, one with an age group of count 0,
\* and a facility with residents but without staff
C22_Witness ==
    /\ build_arguments # <<>>
    /\ Len(build_arguments[1].tracts) = 2
    /\ Len(build_arguments[1].demographics) = 2
    /\ build_arguments[1].demographics[1].age_distribution[2][2] = 0
    /\ build_arguments[1].facilities # <<>>
    /\ build_arguments[1].facilities[1].staff_count = 0
    /\ build_arguments[1].facilities[1].resident_age_profile[1][2] > 0
    /\ Len(population) = 4

-----------------------------------------------------------------------------
(* Which agents an introduction touches *)

\* the agents the claim lets an introduction touch: by equality of the
\* facility id and the group, or of the tract code
IntendedFor(agent, intro) ==
    IF intro.facility_id # <<>>
    THEN /\ agent.type = "facility"
         /\ agent.facility_id = intro.facility_id
         /\ agent.group = intro.group
    ELSE /\ agent.type = "tract"
         /\ agent.tract_fips = intro.tract_fips

\* C23 as claimed: processing one introduction changes the compartments of
\* no agent other than the facility agents with the introduction's facility
\* id and group, or the tract agents with the introduction's tract code.
C23_SeedingTouchesIntendedAgents ==
    [][(pc = "seeding" /\ intro_k' = intro_k + 1) =>
          \A a \in Agents :
              compartments'[a] # compartments[a] =>
                  IntendedFor(population[a], introductions[intro_k])]_vars

\* C24 as claimed: after set_probabilistic_seeding the external force is the
\* value the caller provided, 0 included, and the default 0.0001 only when
\* no value was provided.
C24_ExternalForceAsProvided ==
    force_argument # <<>> =>
        external_force = IF force_argument[1] = <<>>
                         THEN << DefaultExternalForce >>
                         ELSE force_argument[1]

-----------------------------------------------------------------------------
(* The parameter sets the objective hands to the engine *)

\* a Python float x / 10, written as a record so that it can be told from a
\* dict with a mean
Float(x) == [float |-> x]

\* lines 190-207, in tenths
ParameterBounds(param) ==
    IF param = "transmissibility_base" THEN << 5, 20 >>
    ELSE IF param = "detection_multiplier" THEN << 1, 8 >>
    ELSE IF param = "incubation_period_days" THEN << 10, 100 >>
    ELSE IF param = "infectious_period_days" THEN << 30, 140 >>
    ELSE << 1, 100 >>

\* candidate vectors of the optimizer: the lower and the upper bounds
CandidateVectors(params_to_fit) ==
    { [i \in 1..Len(params_to_fit) |-> Float(ParameterBounds(params_to_fit[i])[b])] :
        b \in {1, 2} }

\* lines 279-281: what _update_compartments reads of the parameters
EngineReadsParams(prm) ==
    /\ "mean" \in DOMAIN prm.incubation_period_days
    /\ "mean" \in DOMAIN prm.infectious_period_days

\* C25 as claimed: whatever parameters the calibration under way fits, the
\* parameter set the objective builds from a candidate vector keeps
\* incubation_period_days and infectious_period_days as distributions with
\* a mean, as the engine reads them.
C25_CandidateParamsKeepShape ==
    calib_pc = "optimizing" =>
        \A candidate \in CandidateVectors(calibration_request[1].params_to_fit) :
            EngineReadsParams(UpdatedParams(Params(12, 5, 2),
                                            calibration_request[1].params_to_fit,
                                            candidate))

-----------------------------------------------------------------------------
(* GET /runs/{run_id}/results *)

\* C26: the results route answers with a run result only when the stored
\* status at the time of the request is completed (and then the stored
\* result); when the stored status is queued, running or failed it answers
\* with the error "not completed" (400) and no result; and for a run
\* without a status document it answers with an error as well.
C26_ResultsOnlyWhenCompleted ==
    results_answer # <<>> =>
        LET request == results_answer[1]
        IN  /\ request.answer = "result" =>
                  request.status = "completed" /\ result_store
            /\ request.status \in {"queued", "running", "failed"} =>
                  request.answer = "error_400"
            /\ request.status = "absent" => request.answer = "error_500"

\* the results were requested from a failed run, whose status is still
\* failed, and the route answered with the error
C26_Witness ==
    /\ results_answer # <<>>
    /\ results_answer[1] = [status |-> "failed", answer |-> "error_400"]
    /\ status_store = "failed"
    /\ run_pc = "ended"

-----------------------------------------------------------------------------
(* The end of the background task *)

\* C28 as claimed: when execute_run has ended, whatever step raised, the
\* stored status of the run is completed or failed, and not running.
C28_TaskEndsInTerminalStatus ==
    run_pc = "ended" => status_store \in {"completed", "failed"}

-----------------------------------------------------------------------------
(* The direction of the daily transitions *)

\* C29: in every daily step every agent's S does not increase and its R
\* does not decrease, and the step is a move along S to E to I to R: there
\* are new exposures (the decrease of S, at most S), new infectious (at most
\* E) and new recoveries (the increase of R, at most I) that account for
\* the changes of E and I; nobody moves any other way.
C29_MonotoneProgression ==
    [][(pc = "stepping" /\ t' = t + 1) =>
          \A a \in Agents :
              LET before == compartments[a]
                  after == compartments'[a]
                  new_exposures == before.S - after.S
                  new_recoveries == after.R - before.R
                  new_infectious == before.E + new_exposures - after.E
              IN  /\ after.S <= before.S
                  /\ after.R >= before.R
                  /\ new_exposures \in 0..before.S
                  /\ new_infectious \in 0..before.E
                  /\ new_recoveries \in 0..before.I
                  /\ after.I = before.I + new_infectious - new_recoveries]_vars

\* in a run without introductions that started with nobody exposed,
\* infectious or recovered, an agent has lost a susceptible individual and
\* has a recovered one: exposure, onset and recovery have each happened
C29_Witness ==
    /\ pc = "stepping"
    /\ t >= 3
    /\ introductions = <<>>
    /\ initial_conditions = Fractions(900, 10, 10, 80)
    /\ \E a \in Agents :
          /\ compartments[a].R >= 1
          /\ compartments[a].S < compartments[a].total

-----------------------------------------------------------------------------
(* Transmission and the tract boundaries *)

\* one introduction into the tract 54, into the facility f12 of that tract,
\* or into the staff of the facility f1 of the tract 53
TractSeedings ==
    { << TractIntroduction(T54, RESIDENT, 1) >>,
      << FacilityIntroduction(F12, RESIDENT, 1) >>,
      << FacilityIntroduction(F1, STAFF, 1) >> }

\* an engine for the tiered population, everybody susceptible, before
\* run_simulation; without external force, or with the default one
InitTract ==
    /\ population = TieredPopulation
    /\ params = Params(12, 5, 2)
    /\ contact_layers = ContactLayers
    /\ facility_impact_weights = [k \in {"nursing_home"} |-> 6]
    /\ \E sd \in { [introductions |-> seeding, external_force |-> Unset,
                     seeding_mode |-> "introductions"] : seeding \in TractSeedings }
                  \cup
                  { [introductions |-> <<>>,
                     external_force |-> <<DefaultExternalForce>>,
                     seeding_mode |-> "probabilistic"] } :
          /\ introductions = sd.introductions
          /\ external_force = sd.external_force
          /\ seeding_mode = sd.seeding_mode
    /\ random_state = Unset
    /\ interventions = <<>>
    /\ initial_conditions = Fractions(FracDen, 0, 0, 0)
    /\ num_weeks = 1
    /\ pc = "start"
    /\ t = 0
    /\ intro_k = 1
    /\ compartments = <<>>
    /\ snapI = <<>>
    /\ casesNum = <<>>
    /\ facility_impacts = <<>>
    /\ NoRun

NextTract == Initialize \/ Seed \/ Day

\* run_simulation on the tiered population, up to the last day
SpecTract == InitTract /\ [][NextTract]_vars

\* the tract agents of a tract and the facility agents located in it
LocatedIn(tract_fips) == { a \in Agents : population[a].tract_fips = tract_fips }

\* nobody of the agents is exposed or infectious
FreeOfInfection(comps, agents) ==
    \A a \in agents : comps[a].E = 0 /\ comps[a].I = 0

\* C30: without external force, a daily step leaves every tract whose tract
\* agents and facility agents are all free of exposed and infectious
\* individuals free of them, and leaves the S of these agents as it was,
\* whatever the compartments of the agents of other tracts; hence the tract
\* stays so on every later day.
C30_NoTransmissionAcrossTracts ==
    [][(pc = "stepping" /\ t' = t + 1 /\ external_force = Unset) =>
          \A tract_fips \in { population[a].tract_fips : a \in Agents } :
              FreeOfInfection(compartments, LocatedIn(tract_fips)) =>
                  /\ FreeOfInfection(compartments', LocatedIn(tract_fips))
                  /\ \A a \in LocatedIn(tract_fips) :
                        compartments'[a].S = compartments[a].S]_vars

\* after an introduction into the facility f12 of tract 54 the tract agent
\* of tract 54 has lost its susceptible individual to the infection, while
\* every agent of tract 53 is still susceptible and free of infection
C30_Witness ==
    /\ pc = "stepping"
    /\ t >= 2
    /\ external_force = Unset
    /\ introductions = << FacilityIntroduction(F12, RESIDENT, 1) >>
    /\ \E a \in LocatedIn(T54) :
          population[a].type = "tract" /\ compartments[a].S = 0
    /\ FreeOfInfection(compartments, LocatedIn(T53))
    /\ \A a \in LocatedIn(T53) : compartments[a].S = 1

====
